---------------------------- MODULE Spec2Model ----------------------------
(***************************************************************************)
(* A model of rmp-serde: the MessagePack <-> serde data model translator.  *)
(*                                                                         *)
(*   config.rs  the configuration wrappers (struct framing, variant        *)
(*              identifier form, human-readable flag)                      *)
(*   decode.rs  the Deserializer, its sub-accessors (SeqAccess, MapAccess, *)
(*              VariantAccess, UnitVariantAccess, ExtDeserializer) and the *)
(*              two readers (ReadRefReader, ReadReader)                    *)
(*   lib.rs     Raw / RawRef                                               *)
(*                                                                         *)
(* Bytes are the integers 0..255, byte strings are sequences of bytes.     *)
(* Strings (str) are byte strings that are valid UTF-8.  Names of fields   *)
(* and variants are byte strings too ("A" is <<65>>).                      *)
(***************************************************************************)
EXTENDS Integers, Sequences, FiniteSets, TLC

(***************************************************************************)
(* Bounds of the model.                                                    *)
(***************************************************************************)
\* longest input buffer drawn byte by byte from an alphabet
MaxLen == 3
\* most config wrappers stacked on DefaultConfig
MaxWrap == 2
\* most top-level decode calls issued on one Deserializer
MaxCalls == 2
\* largest value given to set_max_depth
MaxDepthArg == 3

(***************************************************************************)
(* Bytes                                                                   *)
(***************************************************************************)
Byte == 0..255

RECURSIVE Pow2(_)
Pow2(n) == IF n = 0 THEN 1 ELSE 2 * Pow2(n - 1)

Min(a, b) == IF a <= b THEN a ELSE b

Take(s, n) == SubSeq(s, 1, n)

Drop(s, n) == SubSeq(s, n + 1, Len(s))

\* u16::from_be_bytes
BE16(b) == b[1] * 256 + b[2]

\* u32::from_be_bytes.  TLC integers are 32-bit signed, so a length of 2^31
\* or more is represented by 2^31 - 1: every such length exceeds every
\* buffer of the model and every count a visitor of the model takes.
BE32(b) ==
    IF b[1] >= 128 THEN 2147483647
    ELSE ((b[1] * 256 + b[2]) * 256 + b[3]) * 256 + b[4]

\* u16::to_be_bytes
ToBE16(n) == << n \div 256, n % 256 >>

\* u32::to_be_bytes (n < 2^31 in the model)
ToBE32(n) == << n \div 16777216, (n \div 65536) % 256, (n \div 256) % 256, n % 256 >>

\* a value of type i8 from its byte
AsI8(b) == IF b >= 128 THEN b - 256 ELSE b

\* the byte of an i8
OfI8(n) == IF n < 0 THEN n + 256 ELSE n

(***************************************************************************)
(* The MessagePack wire format (the rmp layer the codec calls).            *)
(***************************************************************************)
\* rmp::Marker, by its byte (Marker::to_u8 / Marker::from_u8).  The fix
\* families carry their value in the byte: FixPos 0x00..0x7f, FixMap
\* 0x80..0x8f, FixArray 0x90..0x9f, FixStr 0xa0..0xbf, FixNeg 0xe0..0xff.
Marker ==
    [ FixMap |-> 128, FixArray |-> 144, FixStr |-> 160,
      Null |-> 192, Reserved |-> 193, False |-> 194, True |-> 195,
      Bin8 |-> 196, Bin16 |-> 197, Bin32 |-> 198,
      Ext8 |-> 199, Ext16 |-> 200, Ext32 |-> 201,
      F32 |-> 202, F64 |-> 203,
      U8 |-> 204, U16 |-> 205, U32 |-> 206, U64 |-> 207,
      I8 |-> 208, I16 |-> 209, I32 |-> 210, I64 |-> 211,
      FixExt1 |-> 212, FixExt2 |-> 213, FixExt4 |-> 214, FixExt8 |-> 215,
      FixExt16 |-> 216,
      Str8 |-> 217, Str16 |-> 218, Str32 |-> 219,
      Array16 |-> 220, Array32 |-> 221, Map16 |-> 222, Map32 |-> 223,
      FixNeg |-> 224 ]

IsFixPos(m) == m <= 127
IsFixMap(m) == m >= 128 /\ m <= 143
IsFixArray(m) == m >= 144 /\ m <= 159
IsFixStr(m) == m >= 160 /\ m <= 191
IsFixNeg(m) == m >= 224

IsStrMarker(m) == IsFixStr(m) \/ m \in {Marker.Str8, Marker.Str16, Marker.Str32}
IsArrayMarker(m) == IsFixArray(m) \/ m \in {Marker.Array16, Marker.Array32}
IsMapMarker(m) == IsFixMap(m) \/ m \in {Marker.Map16, Marker.Map32}
IsBinMarker(m) == m \in {Marker.Bin8, Marker.Bin16, Marker.Bin32}
IsExtMarker(m) ==
    m \in {Marker.FixExt1, Marker.FixExt2, Marker.FixExt4, Marker.FixExt8,
           Marker.FixExt16, Marker.Ext8, Marker.Ext16, Marker.Ext32}

\* rmp::encode::write_array_len
WriteArrayLen(len) ==
    IF len < 16 THEN << Marker.FixArray + len >>
    ELSE IF len < 65536 THEN << Marker.Array16 >> \o ToBE16(len)
    ELSE << Marker.Array32 >> \o ToBE32(len)

\* rmp::encode::write_map_len
WriteMapLen(len) ==
    IF len < 16 THEN << Marker.FixMap + len >>
    ELSE IF len < 65536 THEN << Marker.Map16 >> \o ToBE16(len)
    ELSE << Marker.Map32 >> \o ToBE32(len)

\* rmp::encode::write_str: the length header, then the bytes
WriteStr(str) ==
    LET len == Len(str) IN
    (IF len < 32 THEN << Marker.FixStr + len >>
     ELSE IF len < 256 THEN << Marker.Str8, len >>
     ELSE IF len < 65536 THEN << Marker.Str16 >> \o ToBE16(len)
     ELSE << Marker.Str32 >> \o ToBE32(len)) \o str

\* rmp::encode::write_bin: the length header, then the bytes
WriteBin(bin) ==
    LET len == Len(bin) IN
    (IF len < 256 THEN << Marker.Bin8, len >>
     ELSE IF len < 65536 THEN << Marker.Bin16 >> \o ToBE16(len)
     ELSE << Marker.Bin32 >> \o ToBE32(len)) \o bin

\* rmp::encode::write_sint: the smallest representation of an integer
\* (the model's integers are in -32768..65535)
WriteSint(val) ==
    IF val >= 0 /\ val < 128 THEN << val >>
    ELSE IF val < 0 /\ val >= -32 THEN << val + 256 >>
    ELSE IF val < -32 /\ val >= -128 THEN << Marker.I8, val + 256 >>
    ELSE IF val < -128 THEN << Marker.I16 >> \o ToBE16(val + 65536)
    ELSE IF val < 256 THEN << Marker.U8, val >>
    ELSE << Marker.U16 >> \o ToBE16(val)

\* rmp::encode::write_ext_meta: the ext marker, its length and the tag
WriteExtMeta(len, tag) ==
    (IF len = 1 THEN << Marker.FixExt1 >>
     ELSE IF len = 2 THEN << Marker.FixExt2 >>
     ELSE IF len = 4 THEN << Marker.FixExt4 >>
     ELSE IF len = 8 THEN << Marker.FixExt8 >>
     ELSE IF len = 16 THEN << Marker.FixExt16 >>
     ELSE IF len < 256 THEN << Marker.Ext8, len >>
     ELSE IF len < 65536 THEN << Marker.Ext16 >> \o ToBE16(len)
     ELSE << Marker.Ext32 >> \o ToBE32(len)) \o << OfI8(tag) >>

(***************************************************************************)
(* core::str::from_utf8: whether a byte string is valid UTF-8.             *)
(***************************************************************************)
IsCont(b) == b >= 128 /\ b <= 191

\* the length of the well-formed UTF-8 sequence that starts s, 0 if none
Utf8Head(s) ==
    LET b == s[1]
        n == Len(s)
    IN  IF b < 128 THEN 1
        ELSE IF b >= 194 /\ b <= 223
            THEN IF n >= 2 /\ IsCont(s[2]) THEN 2 ELSE 0
        ELSE IF b >= 224 /\ b <= 239
            THEN IF n >= 3 /\ IsCont(s[2]) /\ IsCont(s[3])
                    /\ (b = 224 => s[2] >= 160) /\ (b = 237 => s[2] <= 159)
                 THEN 3 ELSE 0
        ELSE IF b >= 240 /\ b <= 244
            THEN IF n >= 4 /\ IsCont(s[2]) /\ IsCont(s[3]) /\ IsCont(s[4])
                    /\ (b = 240 => s[2] >= 144) /\ (b = 244 => s[2] <= 143)
                 THEN 4 ELSE 0
        ELSE 0

RECURSIVE Utf8Valid(_)
Utf8Valid(s) ==
    IF s = << >> THEN TRUE
    ELSE LET k == Utf8Head(s) IN
         IF k = 0 THEN FALSE ELSE Utf8Valid(Drop(s, k))

(***************************************************************************)
(* Values and types of the serde data model.                               *)
(*                                                                         *)
(* A value carries what its Rust type fixes, so that the type (the         *)
(* Deserialize implementation that reads it back) is a function of it:     *)
(*   <<"unit">>  <<"bool", b>>  <<"int", n>>  <<"str", bytes>>             *)
(*   <<"bytes", bytes>>  <<"none", T>>  <<"some", v>>  <<"seq", T, vs>>    *)
(*   <<"map", K, V, <<<<k1, v1>>, ...>>>>  <<"struct", names, vs>>         *)
(*   <<"tuple", vs>>  <<"unit_struct">>  <<"newtype", v>>                  *)
(*   <<"ext", tag, bytes>>                                                 *)
(*   <<"variant", E, i, vs>>   variant number i (from 1) of the enum E,    *)
(*                             E a sequence of <<name, kind, types>> with  *)
(*                             kind unit | newtype | tuple | struct (types *)
(*                             are the payload types; a struct variant's   *)
(*                             field names are Names)                      *)
(*   <<"wide", cb, bytes>>     a 32 or 64 bit number, by the visitor       *)
(*                             callback and its big-endian bytes           *)
(*   <<"raw", variant, isstr, bytes>>   Raw: Borrowed or Owned, s being Ok *)
(*                             or Err, and the bytes it holds              *)
(*   <<"rawref", isstr, bytes>>   RawRef                                   *)
(* A type T (a seed) is <<"unit">>, <<"bool">>, <<"int">>, <<"str">>,      *)
(* <<"bytes">>, <<"opt", T>>, <<"seq", T>>, <<"map", K, V>>,               *)
(* <<"tuple", Ts>>, <<"struct", names, Ts>>, <<"unit_struct">>,            *)
(* <<"unit_struct", T>> (a unit struct that reads what T reads),           *)
(* <<"newtype", T>>, <<"ext">>, <<"enum", E>>, <<"i128">>, <<"u128">>,     *)
(* <<"raw">>, <<"rawref">>,                                                *)
(* <<"extstruct", T>> (a newtype struct named _ExtStruct around T),        *)
(* <<"addr">> (a type that serializes as text when the format is           *)
(* human-readable and as bytes when it is not, value <<"addr", bytes>>),   *)
(* <<"any">> (a visitor that accepts whatever it is offered and walks it   *)
(* all, as serde's IgnoredAny and dynamic values do) or <<"take", k, T>>   *)
(* (a visitor that takes at most k elements, or entries, of a container    *)
(* and returns successfully).                                              *)
(***************************************************************************)
\* field names of structs and of struct variants, by position: "a", "b", "c"
Names == << <<97>>, <<98>>, <<99>> >>

(***************************************************************************)
(* config.rs: the configuration wrappers.  A config is the sequence of its *)
(* wrappers, outermost first; << >> is DefaultConfig.  The operations      *)
(* return the bytes they write; ser is the config of the Serializer they   *)
(* write through (value.serialize(ser) encodes under the whole config).    *)
(***************************************************************************)
Wrappers == {"StructMap", "StructTuple", "HumanReadable", "Binary"}

RECURSIVE write_struct_len(_, _, _)
RECURSIVE write_struct_field(_, _, _, _)
RECURSIVE write_variant_ident(_, _, _, _)
RECURSIVE is_human_readable(_)
RECURSIVE Serialize(_, _)
RECURSIVE SerializeAll(_, _)
RECURSIVE SerializeEntries(_, _)
RECURSIVE SerializeFields(_, _, _)

Default_write_struct_len(ser, len) == WriteArrayLen(len)

Default_write_struct_field(ser, key, value) == Serialize(ser, value)

\* a DefaultConfig that writes the index of the variant
Default_write_variant_ident_index(ser, variant_index, variant) ==
    Serialize(ser, <<"int", variant_index>>)

Default_write_variant_ident(ser, variant_index, variant) ==
    Serialize(ser, <<"str", variant>>)

Default_is_human_readable == FALSE

\* a StructMapConfig that frames a struct as Default does
StructMap_write_struct_len_array(ser, len) == WriteArrayLen(len)

StructMap_write_struct_len(ser, len) == WriteMapLen(len)

\* a StructMapConfig that writes no keys
StructMap_write_struct_field_unkeyed(ser, key, value) == Serialize(ser, value)

StructMap_write_struct_field(ser, key, value) ==
    WriteStr(key) \o Serialize(ser, value)

StructMap_write_variant_ident(C, ser, variant_index, variant) ==
    write_variant_ident(C, ser, variant_index, variant)

StructMap_is_human_readable(C) == is_human_readable(C)

StructTuple_write_struct_len(ser, len) == WriteArrayLen(len)

StructTuple_write_struct_field(ser, key, value) == Serialize(ser, value)

StructTuple_write_variant_ident(C, ser, variant_index, variant) ==
    write_variant_ident(C, ser, variant_index, variant)

StructTuple_is_human_readable(C) == is_human_readable(C)

HumanReadable_write_struct_len(C, ser, len) == write_struct_len(C, ser, len)

\* a HumanReadableConfig that writes the field as Default does
HumanReadable_write_struct_field_bare(C, ser, key, value) == Serialize(ser, value)

HumanReadable_write_struct_field(C, ser, key, value) ==
    write_struct_field(C, ser, key, value)

HumanReadable_write_variant_ident(C, ser, variant_index, variant) ==
    write_variant_ident(C, ser, variant_index, variant)

HumanReadable_is_human_readable(C) == TRUE

Binary_write_struct_len(C, ser, len) == write_struct_len(C, ser, len)

Binary_write_struct_field(C, ser, key, value) ==
    write_struct_field(C, ser, key, value)

Binary_write_variant_ident(C, ser, variant_index, variant) ==
    write_variant_ident(C, ser, variant_index, variant)

\* a BinaryConfig that leaves the flag to the config it wraps
Binary_is_human_readable_inner(C) == is_human_readable(C)

Binary_is_human_readable(C) == FALSE

\* The static dispatch of sealed::SerializerConfig on the config type cfg.
write_struct_len(cfg, ser, len) ==
    IF cfg = << >> THEN Default_write_struct_len(ser, len)
    ELSE CASE Head(cfg) = "StructMap" -> StructMap_write_struct_len(ser, len)
           [] Head(cfg) = "StructTuple" -> StructTuple_write_struct_len(ser, len)
           [] Head(cfg) = "HumanReadable" ->
                HumanReadable_write_struct_len(Tail(cfg), ser, len)
           [] Head(cfg) = "Binary" -> Binary_write_struct_len(Tail(cfg), ser, len)

write_struct_field(cfg, ser, key, value) ==
    IF cfg = << >> THEN Default_write_struct_field(ser, key, value)
    ELSE CASE Head(cfg) = "StructMap" -> StructMap_write_struct_field(ser, key, value)
           [] Head(cfg) = "StructTuple" ->
                StructTuple_write_struct_field(ser, key, value)
           [] Head(cfg) = "HumanReadable" ->
                HumanReadable_write_struct_field(Tail(cfg), ser, key, value)
           [] Head(cfg) = "Binary" ->
                Binary_write_struct_field(Tail(cfg), ser, key, value)

write_variant_ident(cfg, ser, variant_index, variant) ==
    IF cfg = << >> THEN Default_write_variant_ident(ser, variant_index, variant)
    ELSE CASE Head(cfg) = "StructMap" ->
                StructMap_write_variant_ident(Tail(cfg), ser, variant_index, variant)
           [] Head(cfg) = "StructTuple" ->
                StructTuple_write_variant_ident(Tail(cfg), ser, variant_index, variant)
           [] Head(cfg) = "HumanReadable" ->
                HumanReadable_write_variant_ident(Tail(cfg), ser, variant_index, variant)
           [] Head(cfg) = "Binary" ->
                Binary_write_variant_ident(Tail(cfg), ser, variant_index, variant)

is_human_readable(cfg) ==
    IF cfg = << >> THEN Default_is_human_readable
    ELSE CASE Head(cfg) = "StructMap" -> StructMap_is_human_readable(Tail(cfg))
           [] Head(cfg) = "StructTuple" -> StructTuple_is_human_readable(Tail(cfg))
           [] Head(cfg) = "HumanReadable" -> HumanReadable_is_human_readable(Tail(cfg))
           [] Head(cfg) = "Binary" -> Binary_is_human_readable(Tail(cfg))

(***************************************************************************)
(* The encoder (encode.rs): the bytes Serializer writes for a value under  *)
(* its config ser.                                                         *)
(***************************************************************************)
SerializeAll(ser, vs) ==
    IF vs = << >> THEN << >>
    ELSE Serialize(ser, Head(vs)) \o SerializeAll(ser, Tail(vs))

SerializeEntries(ser, es) ==
    IF es = << >> THEN << >>
    ELSE Serialize(ser, Head(es)[1]) \o Serialize(ser, Head(es)[2])
            \o SerializeEntries(ser, Tail(es))

\* SerializeStruct::serialize_field for each field in declaration order
SerializeFields(ser, names, vs) ==
    IF vs = << >> THEN << >>
    ELSE write_struct_field(ser, ser, Head(names), Head(vs))
            \o SerializeFields(ser, Tail(names), Tail(vs))

SerializeVariant(ser, E, i, vs) ==
    LET name == E[i][1]
        kind == E[i][2]
        ident == write_variant_ident(ser, ser, i - 1, name)
    IN  CASE kind = "unit" -> ident
          [] kind = "newtype" -> WriteMapLen(1) \o ident \o Serialize(ser, vs[1])
          [] kind = "tuple" ->
                WriteMapLen(1) \o ident \o WriteArrayLen(Len(vs)) \o SerializeAll(ser, vs)
          [] kind = "struct" ->
                WriteMapLen(1) \o ident \o write_struct_len(ser, ser, Len(vs))
                    \o SerializeFields(ser, Names, vs)

Serialize(ser, v) ==
    CASE v[1] = "unit" -> << Marker.Null >>
      [] v[1] = "bool" -> << IF v[2] THEN Marker.True ELSE Marker.False >>
      [] v[1] = "int" -> WriteSint(v[2])
      [] v[1] = "str" -> WriteStr(v[2])
      [] v[1] = "bytes" -> WriteBin(v[2])
      [] v[1] = "none" -> << Marker.Null >>
      [] v[1] = "some" -> Serialize(ser, v[2])
      [] v[1] = "seq" -> WriteArrayLen(Len(v[3])) \o SerializeAll(ser, v[3])
      [] v[1] = "map" -> WriteMapLen(Len(v[4])) \o SerializeEntries(ser, v[4])
      [] v[1] = "struct" ->
            write_struct_len(ser, ser, Len(v[3])) \o SerializeFields(ser, v[2], v[3])
      [] v[1] = "tuple" -> WriteArrayLen(Len(v[2])) \o SerializeAll(ser, v[2])
      [] v[1] = "unit_struct" -> << Marker.FixArray >>
      [] v[1] = "newtype" -> Serialize(ser, v[2])
      [] v[1] = "ext" -> WriteExtMeta(Len(v[3]), v[2]) \o v[3]
      [] v[1] = "variant" -> SerializeVariant(ser, v[2], v[3], v[4])
      [] v[1] = "addr" ->
            IF is_human_readable(ser) THEN WriteStr(v[2]) ELSE WriteBin(v[2])

(***************************************************************************)
(* lib.rs: Raw and RawRef.                                                 *)
(***************************************************************************)
\* Raw::new: Raw::Owned { s: Ok(v) }, v a String
Raw_new(v) == <<"raw", "Owned", TRUE, v>>

\* Raw::new_borrowed: Raw::Borrowed { s: Ok(v) }, v a &str
Raw_new_borrowed(v) == <<"raw", "Borrowed", TRUE, v>>

\* Raw::from_utf8
Raw_from_utf8(v) == IF Utf8Valid(v) THEN Raw_new(v) ELSE <<"raw", "Owned", FALSE, v>>

\* Raw::as_str: the Option, << >> or <<str>>
Raw_as_str(raw) == IF raw[3] THEN <<raw[4]>> ELSE << >>

\* Raw::is_str
Raw_is_str(raw) == Raw_as_str(raw) # << >>

\* Raw::is_err
Raw_is_err(raw) == Raw_as_str(raw) = << >>

\* Raw::as_bytes
Raw_as_bytes(raw) == raw[4]

\* <Raw as Serialize>::serialize
Raw_serialize(se, raw) ==
    IF Raw_as_str(raw) # << >> THEN Serialize(se, <<"str", Raw_as_str(raw)[1]>>)
    ELSE Serialize(se, <<"bytes", Raw_as_bytes(raw)>>)

\* RawVisitor::visit_str
RawVisitor_visit_str(v) == <<"raw", "Owned", TRUE, v>>

\* RawVisitor::visit_borrowed_str
RawVisitor_visit_borrowed_str(v) == <<"raw", "Borrowed", TRUE, v>>

\* RawVisitor::visit_bytes
RawVisitor_visit_bytes(v) == <<"raw", "Owned", Utf8Valid(v), v>>

\* RawVisitor::visit_borrowed_bytes
RawVisitor_visit_borrowed_bytes(v) == <<"raw", "Borrowed", Utf8Valid(v), v>>

\* RawRef::new
RawRef_new(v) == <<"rawref", TRUE, v>>

\* RawRef::from_utf8
RawRef_from_utf8(v) == IF Utf8Valid(v) THEN RawRef_new(v) ELSE <<"rawref", FALSE, v>>

\* RawRef::is_str
RawRef_is_str(raw) == raw[2]

\* RawRef::as_bytes
RawRef_as_bytes(raw) == raw[3]

\* <RawRef as Serialize>::serialize
RawRef_serialize(se, raw) ==
    IF raw[2] THEN Serialize(se, <<"str", raw[3]>>)
    ELSE Serialize(se, <<"bytes", raw[3]>>)

\* RawRefVisitor::visit_borrowed_str
RawRefVisitor_visit_borrowed_str(v) == <<"rawref", TRUE, v>>

\* RawRefVisitor::visit_borrowed_bytes
RawRefVisitor_visit_borrowed_bytes(v) == <<"rawref", Utf8Valid(v), v>>

(***************************************************************************)
(* decode.rs.  The operations thread one record s: the Deserializer        *)
(*   s.rd      the reader: [kind |-> "ref" (ReadRefReader) or "stream"     *)
(*             (ReadReader), buf |-> the bytes not yet read,               *)
(*             short |-> what a short read of the stream leaves]           *)
(*   s.config  the config (is_human_readable only)                         *)
(*   s.marker  Option<Marker>: << >> or <<m>>                              *)
(*   s.depth   the remaining depth                                         *)
(* the build                                                               *)
(*   s.checks  whether integer overflow panics (debug) or wraps (release)  *)
(* the outcome of the operation                                            *)
(*   s.err     << >>, or the Error (or panic) it raised                    *)
(*   s.raised  every Error raised on the way, in order                     *)
(*   s.val     its value                                                   *)
(*   s.acc     the sub-accessor it used, as it was left                    *)
(* and what an observer of the run sees                                    *)
(*   s.pos     the number of bytes taken from the reader                   *)
(*   s.mreads  the number of markers read from the reader                  *)
(*   s.low     the smallest value s.depth has had                          *)
(*   s.under   the number of times s.depth was decremented from 0          *)
(*   s.log     the visitor callbacks, in order                             *)
(*   s.slices  the slices handed out by read_slice, <<kind, offset, len>>  *)
(***************************************************************************)
\* usize::MAX, the value 0usize - 1 wraps to.  usize has 64 bits; TLC's
\* integers have 32, and all that matters of usize::MAX is that no nesting
\* of the model comes near it.
USIZE_MAX == 2147483647

IsErr(s) == s.err # << >>

Fail(s, e) == [s EXCEPT !.err = e, !.raised = Append(@, e)]

\* map_err: the error just raised, converted
Converted(s, e) == [s EXCEPT !.err = e, !.raised = [@ EXCEPT ![Len(@)] = e]]

Ret(s, v) == [s EXCEPT !.val = v]

Logged(s, cb) == [s EXCEPT !.log = Append(@, cb)]

\* r? continued by F: the error of r, or F of its value
Bind(r, F(_)) == IF IsErr(r) THEN r ELSE F(r)

\* r.map_err(E)? continued by F
Try(r, E(_), F(_)) == IF IsErr(r) THEN Converted(r, E(r.err)) ELSE F(r)

\* let x = ...; F(x)
With(x, F(_)) == F(x)

\* BytesReadError::InsufficientBytes { expected, actual, position: 0 }
InsufficientBytes(expected, actual) == <<"InsufficientBytes", expected, actual, 0>>

\* a read_exact_buf that keeps nothing of a buffer that was too short
ReadRefReader_read_exact_buf_draining(s, n) ==
    IF Len(s.rd.buf) < n
    THEN Fail([s EXCEPT !.rd.buf = << >>], InsufficientBytes(n, Len(s.rd.buf)))
    ELSE [s EXCEPT !.rd.buf = Drop(@, n), !.val = Take(s.rd.buf, n),
                   !.pos = @ + n]

\* <ReadRefReader as RmpRead>::read_exact_buf: the bytes are s.val
ReadRefReader_read_exact_buf(s, n) ==
    IF Len(s.rd.buf) < n
    THEN Fail(s, InsufficientBytes(n, Len(s.rd.buf)))
    ELSE [s EXCEPT !.rd.buf = Drop(@, n), !.val = Take(s.rd.buf, n),
                   !.pos = @ + n]

\* a ReadRefReader that hands out a copy
ReadRefReader_read_slice_copying(s, len) ==
    IF Len(s.rd.buf) < len
    THEN Fail(s, InsufficientBytes(len, Len(s.rd.buf)))
    ELSE [s EXCEPT !.rd.buf = Drop(@, len), !.val = Take(s.rd.buf, len),
                   !.pos = @ + len,
                   !.slices = Append(@, <<"Copied", s.pos, len>>)]

\* <ReadRefReader as ReadSlice>::read_slice: Reference::Borrowed(a)
ReadRefReader_read_slice(s, len) ==
    IF Len(s.rd.buf) < len
    THEN Fail(s, InsufficientBytes(len, Len(s.rd.buf)))
    ELSE [s EXCEPT !.rd.buf = Drop(@, len), !.val = Take(s.rd.buf, len),
                   !.pos = @ + len,
                   !.slices = Append(@, <<"Borrowed", s.pos, len>>)]

\* The reader R under a ReadReader, an std::io::Read: read_exact fails at
\* the end of the stream, and then says nothing of how much it has taken
\* (s.rd.short: "keep" nothing taken, "drain" all taken).
Stream_read_exact_buf(s, n) ==
    IF Len(s.rd.buf) < n
    THEN IF s.rd.short = "drain"
         THEN [Fail(s, <<"UnexpectedEof">>) EXCEPT !.rd.buf = << >>,
                                                   !.pos = @ + Len(s.rd.buf)]
         ELSE Fail(s, <<"UnexpectedEof">>)
    ELSE [s EXCEPT !.rd.buf = Drop(@, n), !.val = Take(s.rd.buf, n),
                   !.pos = @ + n]

\* <ReadReader as RmpRead>::read_exact_buf
ReadReader_read_exact_buf(s, n) == Stream_read_exact_buf(s, n)

\* <ReadReader as ReadSlice>::read_slice: Reference::Copied(&self.buf[..])
ReadReader_read_slice(s, len) ==
    Bind(Stream_read_exact_buf(s, len),
         LAMBDA r : [r EXCEPT !.slices = Append(@, <<"Copied", s.pos, len>>)])

\* R::read_exact_buf for the reader type R of the Deserializer
read_exact_buf(s, n) ==
    IF s.rd.kind = "ref" THEN ReadRefReader_read_exact_buf(s, n)
    ELSE ReadReader_read_exact_buf(s, n)

\* R::read_slice; s.val is the slice, Last(s.slices) its Reference
read_slice(s, len) ==
    IF s.rd.kind = "ref" THEN ReadRefReader_read_slice(s, len)
    ELSE ReadReader_read_slice(s, len)

\* the Reference kind of the slice just read
LastRef(s) == s.slices[Len(s.slices)][1]

\* Error::InvalidValueRead(ValueReadError::InvalidDataRead(e))
InvalidDataRead(e) == <<"InvalidValueRead", "InvalidDataRead", e>>

\* Error::InvalidValueRead(ValueReadError::InvalidMarkerRead(e))
InvalidMarkerRead(e) == <<"InvalidValueRead", "InvalidMarkerRead", e>>

\* rmp::decode::read_marker, with From<MarkerReadError> for Error
read_marker(s) ==
    Try(read_exact_buf(s, 1), InvalidMarkerRead,
        LAMBDA r : [r EXCEPT !.val = r.val[1], !.mreads = @ + 1])

\* RmpRead::read_data_u8 .. read_data_f64 (n payload bytes, big-endian),
\* with From<ValueReadError> for Error; s.val is the bytes
read_data(s, n) == Try(read_exact_buf(s, n), InvalidDataRead, LAMBDA r : r)

\* a take that drops the cached marker and reads the next one
take_or_read_marker_dropping(s) == read_marker([s EXCEPT !.marker = << >>])

\* Deserializer::take_or_read_marker; s.val is the marker
take_or_read_marker(s) ==
    IF s.marker # << >>
    THEN [s EXCEPT !.marker = << >>, !.val = s.marker[1]]
    ELSE read_marker(s)

\* a peek that does not keep the marker it read
peek_or_read_marker_taking(s) == take_or_read_marker(s)

\* Deserializer::peek_or_read_marker; s.val is the marker
peek_or_read_marker(s) ==
    IF s.marker # << >>
    THEN Ret(s, s.marker[1])
    ELSE Bind(read_marker(s), LAMBDA r : [r EXCEPT !.marker = <<r.val>>])

\* read_bin_data (decode.rs): the slice is s.val
read_bin_data(s, len) == Try(read_slice(s, len), InvalidDataRead, LAMBDA r : r)

\* read_u8 (decode.rs); s.val is the number
read_u8(s) ==
    Try(read_exact_buf(s, 1), InvalidDataRead, LAMBDA r : Ret(r, r.val[1]))

\* read_u16 (decode.rs)
read_u16(s) ==
    Try(read_exact_buf(s, 2), InvalidDataRead, LAMBDA r : Ret(r, BE16(r.val)))

\* read_u32 (decode.rs)
read_u32(s) ==
    Try(read_exact_buf(s, 4), InvalidDataRead, LAMBDA r : Ret(r, BE32(r.val)))

\* ext_len (decode.rs); s.val is the length
ext_len(s, marker) ==
    CASE marker = Marker.FixExt1 -> Ret(s, 1)
      [] marker = Marker.FixExt2 -> Ret(s, 2)
      [] marker = Marker.FixExt4 -> Ret(s, 4)
      [] marker = Marker.FixExt8 -> Ret(s, 8)
      [] marker = Marker.FixExt16 -> Ret(s, 16)
      [] marker = Marker.Ext8 -> read_u8(s)
      [] marker = Marker.Ext16 -> read_u16(s)
      [] marker = Marker.Ext32 -> read_u32(s)
      [] OTHER -> Fail(s, <<"TypeMismatch", marker>>)

\* rmp::decode::marker_to_len: the length a container marker declares
\* (fixmap, map16, map32, fixarray); s.val is the length
marker_to_len(s, marker) ==
    IF IsFixMap(marker) THEN Ret(s, marker - Marker.FixMap)
    ELSE IF IsFixArray(marker) THEN Ret(s, marker - Marker.FixArray)
    ELSE IF marker = Marker.Map16
        THEN Bind(read_data(s, 2), LAMBDA r : Ret(r, BE16(r.val)))
    ELSE IF marker = Marker.Map32
        THEN Bind(read_data(s, 4), LAMBDA r : Ret(r, BE32(r.val)))
    ELSE Fail(s, <<"TypeMismatch", marker>>)

(***************************************************************************)
(* The visitors (serde's side of the contract).  A visitor is the type it  *)
(* builds; a callback it does not implement is serde's default, the error  *)
(* invalid_type, which Error::custom turns into Error::Syntax.             *)
(***************************************************************************)
\* <Error as de::Error>::custom
custom(msg) == <<"Syntax", msg>>

UnsignedCallbacks == {"visit_u8", "visit_u16", "visit_u32", "visit_u64"}
NarrowCallbacks == {"visit_u8", "visit_u16", "visit_i8", "visit_i16"}
WideCallbacks ==
    {"visit_u32", "visit_u64", "visit_i32", "visit_i64", "visit_f32", "visit_f64"}
StrCallbacks == {"visit_str", "visit_borrowed_str"}
BytesCallbacks == {"visit_bytes", "visit_borrowed_bytes"}

\* the position of name in names, 0 if it is not there
NameIndex(name, names) ==
    IF \E i \in 1..Len(names) : names[i] = name
    THEN CHOOSE i \in 1..Len(names) : names[i] = name
    ELSE 0

\* the number of the variant of E called name, 0 if there is none
VariantIndex(name, E) ==
    IF \E i \in 1..Len(E) : E[i][1] = name
    THEN CHOOSE i \in 1..Len(E) : E[i][1] = name
    ELSE 0

\* what the visitor v answers to a scalar callback cb(x): << >> when it
\* rejects it, <<value>> when it accepts it
Answer(v, cb, x) ==
    LET t == v[1] IN
    CASE t = "any" ->
            IF cb \in {"visit_unit", "visit_none"} THEN << <<"unit">> >>
            ELSE IF cb = "visit_bool" THEN << <<"bool", x>> >>
            ELSE IF cb \in NarrowCallbacks THEN << <<"int", x>> >>
            ELSE IF cb \in StrCallbacks THEN << <<"str", x>> >>
            ELSE IF cb \in BytesCallbacks THEN << <<"bytes", x>> >>
            ELSE << <<"wide", cb, x>> >>
      [] t = "unit" -> IF cb = "visit_unit" THEN << <<"unit">> >> ELSE << >>
      [] t = "unit_struct" ->
            IF cb = "visit_unit" THEN << <<"unit_struct">> >> ELSE << >>
      [] t = "bool" -> IF cb = "visit_bool" THEN << <<"bool", x>> >> ELSE << >>
      [] t = "int" ->
            IF cb \in NarrowCallbacks THEN << <<"int", x>> >>
            ELSE IF cb \in {"visit_u32", "visit_u64", "visit_i32", "visit_i64"}
                THEN << <<"wide", cb, x>> >>
            ELSE << >>
      [] t = "str" ->
            IF cb \in StrCallbacks THEN << <<"str", x>> >>
            ELSE IF cb \in BytesCallbacks /\ Utf8Valid(x) THEN << <<"str", x>> >>
            ELSE << >>
      [] t = "bytes" ->
            IF cb \in StrCallbacks \cup BytesCallbacks THEN << <<"bytes", x>> >>
            ELSE << >>
      [] t = "opt" ->
            IF cb \in {"visit_none", "visit_unit"} THEN << <<"none", v[2]>> >>
            ELSE << >>
      [] t = "raw" ->
            CASE cb = "visit_str" -> << RawVisitor_visit_str(x) >>
              [] cb = "visit_borrowed_str" -> << RawVisitor_visit_borrowed_str(x) >>
              [] cb = "visit_bytes" -> << RawVisitor_visit_bytes(x) >>
              [] cb = "visit_borrowed_bytes" -> << RawVisitor_visit_borrowed_bytes(x) >>
              [] OTHER -> << >>
      [] t = "rawref" ->
            CASE cb = "visit_borrowed_str" -> << RawRefVisitor_visit_borrowed_str(x) >>
              [] cb = "visit_borrowed_bytes" -> << RawRefVisitor_visit_borrowed_bytes(x) >>
              [] OTHER -> << >>
      [] t = "i128" ->
            IF cb = "visit_i128" THEN << <<"wide", cb, x>> >> ELSE << >>
      [] t = "u128" ->
            IF cb = "visit_u128" THEN << <<"wide", cb, x>> >> ELSE << >>
      [] t = "field" ->
            \* a derived struct's field identifier: unknown ones are ignored
            IF cb \in {"visit_u8", "visit_u16"}
                THEN << <<"field", IF x < Len(v[2]) THEN x + 1 ELSE 0>> >>
            ELSE IF cb \in {"visit_u32", "visit_u64"} THEN << <<"field", 0>> >>
            ELSE IF cb \in StrCallbacks \cup BytesCallbacks
                THEN << <<"field", NameIndex(x, v[2])>> >>
            ELSE << >>
      [] t = "variantid" ->
            \* a derived enum's variant identifier: unknown ones are errors
            IF cb \in {"visit_u8", "visit_u16"} /\ x < Len(v[2])
                THEN << <<"variantid", x + 1>> >>
            ELSE IF cb \in StrCallbacks \cup BytesCallbacks /\ VariantIndex(x, v[2]) # 0
                THEN << <<"variantid", VariantIndex(x, v[2])>> >>
            ELSE << >>
      [] OTHER -> << >>

\* visitor.cb(x) for a scalar callback
Visit(s, v, cb, x) ==
    With(Answer(v, cb, x),
         LAMBDA a : IF a = << >> THEN Fail(Logged(s, cb), custom("invalid type"))
                    ELSE Ret(Logged(s, cb), a[1]))

(***************************************************************************)
(* The Deserializer.                                                       *)
(***************************************************************************)
\* MSGPACK_EXT_STRUCT_NAME (lib.rs)
MSGPACK_EXT_STRUCT_NAME == "_ExtStruct"

RECURSIVE Deserialize(_, _)
RECURSIVE deserialize_any(_, _)
RECURSIVE deserialize_option(_, _)
RECURSIVE deserialize_enum(_, _)
RECURSIVE deserialize_newtype_struct(_, _, _)
RECURSIVE deserialize_unit_struct(_, _)
RECURSIVE visit_seq(_, _)
RECURSIVE visit_map(_, _)
RECURSIVE visit_enum(_, _, _)
RECURSIVE visit_some(_, _)
RECURSIVE visit_newtype_struct_ext(_, _, _)
RECURSIVE TakeElements(_, _, _)
RECURSIVE TakeEntries(_, _, _)
RECURSIVE TakeFields(_, _, _, _)
RECURSIVE SeqAccess_next_element_seed(_, _)
RECURSIVE ExtDeserializer_next_element_seed(_, _)
RECURSIVE ExtDeserializer_deserialize_any(_, _)
RECURSIVE MapAccess_next_key_seed(_, _)
RECURSIVE MapAccess_next_value_seed(_, _)

\* depth_count!: $counter -= 1; if $counter == 0 { return Err(DepthLimitExceeded) }
DepthEnter(s) ==
    IF s.depth = 0 /\ s.checks
    THEN Fail([s EXCEPT !.under = @ + 1], <<"panic", "attempt to subtract with overflow">>)
    ELSE LET d == IF s.depth = 0 THEN USIZE_MAX ELSE s.depth - 1
             r == [s EXCEPT !.depth = d, !.low = Min(@, d),
                            !.under = IF s.depth = 0 THEN @ + 1 ELSE @]
         IN  IF d = 0 THEN Fail(r, <<"DepthLimitExceeded">>) ELSE r

\* depth_count!: $counter += 1, once $expr has a value
DepthLeave(s) ==
    IF s.depth = USIZE_MAX
    THEN IF s.checks THEN Fail(s, <<"panic", "attempt to add with overflow">>)
         ELSE [s EXCEPT !.depth = 0]
    ELSE [s EXCEPT !.depth = @ + 1]

\* SeqAccess::new
SeqAccess_new(len) == [kind |-> "SeqAccess", left |-> len]

\* MapAccess::new
MapAccess_new(len) == [kind |-> "MapAccess", left |-> len]

\* ExtDeserializer::new
ExtDeserializer_new(len) == [kind |-> "ExtDeserializer", len |-> len, state |-> "New"]

\* the value of a number from its big-endian bytes: narrow ones by their
\* value, wide ones by their bytes
NumberValue(cb, bytes) ==
    CASE cb = "visit_u8" -> bytes[1]
      [] cb = "visit_i8" -> AsI8(bytes[1])
      [] cb = "visit_u16" -> BE16(bytes)
      [] cb = "visit_i16" -> IF BE16(bytes) >= 32768 THEN BE16(bytes) - 65536 ELSE BE16(bytes)
      [] OTHER -> bytes

\* str::from_utf8(buf) of bytes that are not valid: the Utf8Error, by its
\* valid_up_to()
RECURSIVE valid_up_to(_)
valid_up_to(buf) ==
    IF buf = << >> \/ Utf8Head(buf) = 0 THEN 0
    ELSE Utf8Head(buf) + valid_up_to(Drop(buf, Utf8Head(buf)))

\* Error::Utf8Error(err)
Utf8Error(buf) == <<"Utf8Error", valid_up_to(buf)>>

\* a fallback that returns the error of the visitor
Utf8Fallback_visitor_error(b, err) == b

\* Ok(buf) => Ok(buf), Err(..) => Err(Error::Utf8Error(err)) of read_str_data
Utf8Fallback(b, err) == IF IsErr(b) THEN Fail(b, err) ELSE b

\* a container arm that returns the visitor's value whatever is left
CheckLeft_unchecked(res, len) == res

\* Ok(res) when seq.left is 0, Err(LengthMismatch(len - excess)) otherwise
CheckLeft(res, len) ==
    IF res.acc.left = 0 THEN res
    ELSE Fail(res, <<"LengthMismatch", len - res.acc.left>>)

\* Ok(Some(value)) of a next_element_seed or next_key_seed
Some(r) == IF IsErr(r) THEN r ELSE Ret(r, <<r.val>>)

\* the operation r, the sub-accessor being a when it returns
Rewind(r, a) == [r EXCEPT !.acc = a]

\* the payload of a number marker: n bytes, narrow ones by their value
Number(s, v, cb, n) ==
    Bind(read_data(s, n), LAMBDA r : Visit(r, v, cb, NumberValue(cb, r.val)))

\* a read_str_data without the bytes fallback
read_str_data_strict(s, len, visitor) ==
    Bind(read_bin_data(s, len), LAMBDA r :
        IF ~Utf8Valid(r.val) THEN Fail(r, Utf8Error(r.val))
        ELSE IF LastRef(r) = "Borrowed"
            THEN Visit(r, visitor, "visit_borrowed_str", r.val)
        ELSE Visit(r, visitor, "visit_str", r.val))

\* Deserializer::read_str_data
read_str_data(s, len, visitor) ==
    Bind(read_bin_data(s, len), LAMBDA r :
        IF LastRef(r) = "Borrowed"
        THEN IF Utf8Valid(r.val) THEN Visit(r, visitor, "visit_borrowed_str", r.val)
             ELSE Utf8Fallback(Visit(r, visitor, "visit_borrowed_bytes", r.val),
                               Utf8Error(r.val))
        ELSE IF Utf8Valid(r.val) THEN Visit(r, visitor, "visit_str", r.val)
             ELSE Utf8Fallback(Visit(r, visitor, "visit_bytes", r.val),
                               Utf8Error(r.val)))

\* whether the bytes of b from i to j are all x
AllAre(b, i, j, x) == \A k \in i..j : b[k] = x

\* u128::from_be_bytes: the number when it is below 2^24, else the sixteen
\* bytes, most significant first, in <<"limbs", ..>>
U128_from_be_bytes(buf) ==
    IF AllAre(buf, 1, 13, 0) THEN (buf[14] * 256 + buf[15]) * 256 + buf[16]
    ELSE <<"limbs", buf>>

\* i128::from_be_bytes (two's complement): the number when it is in
\* -2^23 .. 2^23 - 1, else the sixteen bytes
I128_from_be_bytes(buf) ==
    IF AllAre(buf, 1, 13, 0) /\ buf[14] < 128
        THEN (buf[14] * 256 + buf[15]) * 256 + buf[16]
    ELSE IF AllAre(buf, 1, 13, 255) /\ buf[14] >= 128
        THEN (buf[14] * 256 + buf[15]) * 256 + buf[16] - 16777216
    ELSE <<"limbs", buf>>

\* a read_128 that takes a bin8 of any length
read_128_any_len(s) ==
    Bind(take_or_read_marker(s), LAMBDA r :
        IF r.val # Marker.Bin8 THEN Fail(r, <<"TypeMismatch", r.val>>)
        ELSE Bind(read_u8(r), LAMBDA l : read_bin_data(l, l.val)))

\* Deserializer::read_128; s.val is the 16 bytes
read_128(s) ==
    Bind(take_or_read_marker(s), LAMBDA r :
        IF r.val # Marker.Bin8 THEN Fail(r, <<"TypeMismatch", r.val>>)
        ELSE Bind(read_u8(r), LAMBDA l :
                IF l.val # 16 THEN Fail(l, <<"LengthMismatch", 16>>)
                ELSE read_bin_data(l, l.val)))

\* the length a str, bin, array or map marker declares; s.val is the length
DeclaredLen(s, marker, fix, m8, m16) ==
    IF marker >= fix /\ marker < Marker.Null THEN Ret(s, marker - fix)
    ELSE IF marker = m8 THEN read_u8(s)
    ELSE IF marker = m16 THEN read_u16(s)
    ELSE read_u32(s)

\* <&mut Deserializer as serde::Deserializer>::deserialize_any
deserialize_any(s, visitor) ==
    Bind(take_or_read_marker(s), LAMBDA t :
    LET marker == t.val IN
    CASE marker = Marker.Null -> Visit(t, visitor, "visit_unit", << >>)
      [] marker \in {Marker.True, Marker.False} ->
            Visit(t, visitor, "visit_bool", marker = Marker.True)
      [] IsFixPos(marker) -> Visit(t, visitor, "visit_u8", marker)
      [] IsFixNeg(marker) -> Visit(t, visitor, "visit_i8", AsI8(marker))
      [] marker = Marker.U8 -> Number(t, visitor, "visit_u8", 1)
      [] marker = Marker.U16 -> Number(t, visitor, "visit_u16", 2)
      [] marker = Marker.U32 -> Number(t, visitor, "visit_u32", 4)
      [] marker = Marker.U64 -> Number(t, visitor, "visit_u64", 8)
      [] marker = Marker.I8 -> Number(t, visitor, "visit_i8", 1)
      [] marker = Marker.I16 -> Number(t, visitor, "visit_i16", 2)
      [] marker = Marker.I32 -> Number(t, visitor, "visit_i32", 4)
      [] marker = Marker.I64 -> Number(t, visitor, "visit_i64", 8)
      [] marker = Marker.F32 -> Number(t, visitor, "visit_f32", 4)
      [] marker = Marker.F64 -> Number(t, visitor, "visit_f64", 8)
      [] IsStrMarker(marker) ->
            Bind(DeclaredLen(t, marker, Marker.FixStr, Marker.Str8, Marker.Str16),
                 LAMBDA l : read_str_data(l, l.val, visitor))
      [] IsArrayMarker(marker) ->
            Bind(DeclaredLen(t, marker, Marker.FixArray, 0, Marker.Array16), LAMBDA l :
            Bind(DepthEnter(l), LAMBDA d :
            Bind(visit_seq([d EXCEPT !.acc = SeqAccess_new(l.val)], visitor), LAMBDA res :
            DepthLeave(CheckLeft(res, l.val)))))
      [] IsMapMarker(marker) ->
            Bind(DeclaredLen(t, marker, Marker.FixMap, 0, Marker.Map16), LAMBDA l :
            Bind(DepthEnter(l), LAMBDA d :
            Bind(visit_map([d EXCEPT !.acc = MapAccess_new(l.val)], visitor), LAMBDA res :
            DepthLeave(CheckLeft(res, l.val)))))
      [] IsBinMarker(marker) ->
            Bind(DeclaredLen(t, marker, 256, Marker.Bin8, Marker.Bin16), LAMBDA l :
            Bind(read_bin_data(l, l.val), LAMBDA r :
            IF LastRef(r) = "Borrowed"
            THEN Visit(r, visitor, "visit_borrowed_bytes", r.val)
            ELSE Visit(r, visitor, "visit_bytes", r.val)))
      [] IsExtMarker(marker) ->
            Bind(ext_len(t, marker), LAMBDA l :
            Bind(DepthEnter(l), LAMBDA d :
            DepthLeave(visit_newtype_struct_ext(d, visitor, l.val))))
      [] marker = Marker.Reserved -> Fail(t, <<"TypeMismatch", Marker.Reserved>>))

\* a next_element_seed that does not look at what is left
SeqAccess_next_element_seed_unguarded(s, seed) ==
    Some(Rewind(Deserialize(s, seed), [s.acc EXCEPT !.left = @ - 1]))

\* <SeqAccess as de::SeqAccess>::next_element_seed; s.acc is the SeqAccess,
\* s.val the Option: << >> or <<element>>
SeqAccess_next_element_seed(s, seed) ==
    IF s.acc.left > 0
    THEN Some(Rewind(Deserialize(s, seed), [s.acc EXCEPT !.left = @ - 1]))
    ELSE Ret(s, << >>)

\* <&mut ExtDeserializer as de::Deserializer>::deserialize_any
ExtDeserializer_deserialize_any(s, visitor) ==
    CASE s.acc.state = "New" ->
            Bind(read_data(s, 1), LAMBDA r :
                Visit([r EXCEPT !.acc.state = "ReadTag"], visitor, "visit_i8",
                      AsI8(r.val[1])))
      [] s.acc.state = "ReadTag" ->
            Try(read_slice(s, s.acc.len), InvalidDataRead, LAMBDA r :
                IF LastRef(r) = "Borrowed"
                THEN Visit([r EXCEPT !.acc.state = "ReadBinary"], visitor,
                           "visit_borrowed_bytes", r.val)
                ELSE Visit([r EXCEPT !.acc.state = "ReadBinary"], visitor,
                           "visit_bytes", r.val))
      [] s.acc.state = "ReadBinary" -> Fail(s, <<"panic", "unreachable">>)

\* a next_element_seed that hands every request to deserialize_any
ExtDeserializer_next_element_seed_unguarded(s, seed) ==
    IF seed[1] \in {"i128", "u128"}
    THEN Fail(s, custom("i128 is not supported"))
    ELSE Some(ExtDeserializer_deserialize_any(s, seed))

\* <ExtDeserializer as de::SeqAccess>::next_element_seed.  Every method of
\* &mut ExtDeserializer forwards to deserialize_any, but deserialize_i128
\* and deserialize_u128, which are serde's defaults (an error).
ExtDeserializer_next_element_seed(s, seed) ==
    IF s.acc.state \in {"New", "ReadTag"}
    THEN IF seed[1] \in {"i128", "u128"}
         THEN Fail(s, custom("i128 is not supported"))
         ELSE Some(ExtDeserializer_deserialize_any(s, seed))
    ELSE Ret(s, << >>)

\* seq.next_element_seed(seed) on the SeqAccess the visitor was given
next_element_seed(s, seed) ==
    IF s.acc.kind = "SeqAccess" THEN SeqAccess_next_element_seed(s, seed)
    ELSE ExtDeserializer_next_element_seed(s, seed)

\* the type of the next element a visit_seq loop asks for
PlanSeed(plan) ==
    CASE plan[1] = "all" -> plan[2]
      [] plan[1] = "list" -> Head(plan[2])
      [] plan[1] = "atmost" -> plan[3]

\* what the loop has left to take after one element
PlanRest(plan) ==
    CASE plan[1] = "all" -> plan
      [] plan[1] = "list" -> <<"list", Tail(plan[2])>>
      [] plan[1] = "atmost" -> <<"atmost", plan[2] - 1, plan[3]>>

\* A visitor's visit_seq loop.  plan says what it takes:
\*   <<"all", T>>      elements of type T until the sequence ends
\*   <<"list", Ts>>    one element of each type of Ts; a missing one is
\*                     the error invalid_length
\*   <<"atmost", k, T>> at most k elements of type T
\* s.val is the sequence of the elements taken.
TakeElements(s, plan, out) ==
    IF (plan[1] = "list" /\ plan[2] = << >>) \/ (plan[1] = "atmost" /\ plan[2] = 0)
    THEN Ret(s, out)
    ELSE Bind(next_element_seed(s, PlanSeed(plan)), LAMBDA r :
            IF r.val = << >>
            THEN IF plan[1] = "list" THEN Fail(r, custom("invalid length"))
                 ELSE Ret(r, out)
            ELSE TakeElements(r, PlanRest(plan), Append(out, r.val[1])))

\* visitor.visit_seq(seq), seq being s.acc
visit_seq(s, visitor) ==
    CASE visitor[1] = "any" ->
            Bind(TakeElements(Logged(s, "visit_seq"), <<"all", <<"any">>>>, << >>),
                 LAMBDA e : Ret(e, <<"seq", <<"any">>, e.val>>))
      [] visitor[1] = "seq" ->
            Bind(TakeElements(Logged(s, "visit_seq"), <<"all", visitor[2]>>, << >>),
                 LAMBDA e : Ret(e, <<"seq", visitor[2], e.val>>))
      [] visitor[1] = "take" ->
            Bind(TakeElements(Logged(s, "visit_seq"), <<"atmost", visitor[2], visitor[3]>>,
                              << >>),
                 LAMBDA e : Ret(e, <<"seq", visitor[3], e.val>>))
      [] visitor[1] = "tuple" ->
            Bind(TakeElements(Logged(s, "visit_seq"), <<"list", visitor[2]>>, << >>),
                 LAMBDA e : Ret(e, <<"tuple", e.val>>))
      [] visitor[1] = "struct" ->
            Bind(TakeElements(Logged(s, "visit_seq"), <<"list", visitor[3]>>, << >>),
                 LAMBDA e : Ret(e, <<"struct", visitor[2], e.val>>))
      [] OTHER -> Fail(Logged(s, "visit_seq"), custom("invalid type"))

\* <MapAccess as de::MapAccess>::next_key_seed; s.val is << >> or <<key>>
MapAccess_next_key_seed(s, seed) ==
    IF s.acc.left > 0
    THEN Some(Rewind(Deserialize(s, seed), [s.acc EXCEPT !.left = @ - 1]))
    ELSE Ret(s, << >>)

\* <MapAccess as de::MapAccess>::next_value_seed; s.val is the value
MapAccess_next_value_seed(s, seed) == Rewind(Deserialize(s, seed), s.acc)

\* A visitor's visit_map loop over whole entries: <<"all", K, V>> or
\* <<"atmost", k, K, V>>.  s.val is the sequence of the entries taken.
TakeEntries(s, plan, out) ==
    IF plan[1] = "atmost" /\ plan[2] = 0 THEN Ret(s, out)
    ELSE Bind(MapAccess_next_key_seed(s, IF plan[1] = "all" THEN plan[2] ELSE plan[3]),
         LAMBDA k :
            IF k.val = << >> THEN Ret(k, out)
            ELSE Bind(MapAccess_next_value_seed(k, IF plan[1] = "all" THEN plan[3]
                                                   ELSE plan[4]),
                 LAMBDA x :
                    TakeEntries(x,
                                IF plan[1] = "all" THEN plan
                                ELSE <<"atmost", plan[2] - 1, plan[3], plan[4]>>,
                                Append(out, <<k.val[1], x.val>>))))

\* A derived struct's visit_map loop: each key is a field identifier; the
\* value of an unknown field is ignored, a field given twice and a field
\* not given are errors.  slots[i] is << >> or <<value of field i>>.
TakeFields(s, names, Ts, slots) ==
    Bind(MapAccess_next_key_seed(s, <<"field", names>>), LAMBDA k :
        IF k.val = << >>
        THEN IF \E i \in 1..Len(Ts) : slots[i] = << >>
             THEN Fail(k, custom("missing field"))
             ELSE Ret(k, [i \in 1..Len(Ts) |-> slots[i][1]])
        ELSE IF k.val[1][2] = 0
             THEN Bind(MapAccess_next_value_seed(k, <<"any">>),
                       LAMBDA x : TakeFields(x, names, Ts, slots))
        ELSE IF slots[k.val[1][2]] # << >> THEN Fail(k, custom("duplicate field"))
        ELSE Bind(MapAccess_next_value_seed(k, Ts[k.val[1][2]]),
                  LAMBDA x : TakeFields(x, names, Ts,
                                        [slots EXCEPT ![k.val[1][2]] = <<x.val>>])))

\* visitor.visit_map(map), map being s.acc
visit_map(s, visitor) ==
    CASE visitor[1] = "any" ->
            Bind(TakeEntries(Logged(s, "visit_map"), <<"all", <<"any">>, <<"any">>>>, << >>),
                 LAMBDA e : Ret(e, <<"map", <<"any">>, <<"any">>, e.val>>))
      [] visitor[1] = "map" ->
            Bind(TakeEntries(Logged(s, "visit_map"), <<"all", visitor[2], visitor[3]>>,
                             << >>),
                 LAMBDA e : Ret(e, <<"map", visitor[2], visitor[3], e.val>>))
      [] visitor[1] = "take" ->
            Bind(TakeEntries(Logged(s, "visit_map"),
                             <<"atmost", visitor[2], visitor[3], visitor[3]>>, << >>),
                 LAMBDA e : Ret(e, <<"map", visitor[3], visitor[3], e.val>>))
      [] visitor[1] = "struct" ->
            Bind(TakeFields(Logged(s, "visit_map"), visitor[2], visitor[3],
                            [i \in 1..Len(visitor[3]) |-> << >>]),
                 LAMBDA e : Ret(e, <<"struct", visitor[2], e.val>>))
      [] OTHER -> Fail(Logged(s, "visit_map"), custom("invalid type"))

\* visitor.visit_newtype_struct(ExtDeserializer::new(self, len)).  The
\* visitor deserializes its inner type from the ExtDeserializer, whose every
\* method forwards to <ExtDeserializer as Deserializer>::deserialize_any,
\* that is visit_seq(self), for the inner type's visitor.
visit_newtype_struct_ext(s, visitor, len) ==
    IF visitor[1] \notin {"any", "ext", "newtype"}
    THEN Fail(Logged(s, "visit_newtype_struct"), custom("invalid type"))
    ELSE Bind(visit_seq(Rewind(Logged(s, "visit_newtype_struct"), ExtDeserializer_new(len)),
                        CASE visitor[1] = "any" -> <<"any">>
                          [] visitor[1] = "ext" -> <<"tuple", << <<"int">>, <<"bytes">> >> >>
                          [] visitor[1] = "newtype" -> visitor[2]),
              LAMBDA e :
                IF visitor[1] = "ext" THEN Ret(e, <<"ext", e.val[2][1][2], e.val[2][2][2]>>)
                ELSE Ret(e, <<"newtype", e.val>>))

\* visitor.visit_some(self)
visit_some(s, visitor) ==
    CASE visitor[1] = "opt" ->
            Bind(Deserialize(Logged(s, "visit_some"), visitor[2]),
                 LAMBDA e : Ret(e, <<"some", e.val>>))
      [] visitor[1] = "any" -> Deserialize(Logged(s, "visit_some"), <<"any">>)
      [] OTHER -> Fail(Logged(s, "visit_some"), custom("invalid type"))

\* a deserialize_option that does not put the marker back before visit_some
deserialize_option_unstashed(s, visitor) ==
    Bind(take_or_read_marker(s), LAMBDA t :
        IF t.val = Marker.Null THEN Visit(t, visitor, "visit_none", << >>)
        ELSE visit_some(t, visitor))

\* a deserialize_option that puts the marker back before it looks at it
deserialize_option_keeping(s, visitor) ==
    Bind(take_or_read_marker(s), LAMBDA t :
        IF t.val = Marker.Null
        THEN Visit([t EXCEPT !.marker = <<t.val>>], visitor, "visit_none", << >>)
        ELSE visit_some([t EXCEPT !.marker = <<t.val>>], visitor))

\* <&mut Deserializer as serde::Deserializer>::deserialize_option
deserialize_option(s, visitor) ==
    Bind(take_or_read_marker(s), LAMBDA t :
        IF t.val = Marker.Null THEN Visit(t, visitor, "visit_none", << >>)
        ELSE visit_some([t EXCEPT !.marker = <<t.val>>], visitor))

\* rmp::decode::read_nil, with From<ValueReadError> for Error
read_nil(s) ==
    Bind(read_marker(s), LAMBDA r :
        IF r.val = Marker.Null THEN Ret(r, << >>)
        ELSE Fail(r, <<"InvalidValueRead", "TypeMismatch", r.val>>))

\* serde::de::Error::invalid_type(unexp, &exp), an Error::custom
invalid_type(unexp, exp) == custom("invalid type: " \o unexp \o ", expected " \o exp)

\* <UnitVariantAccess as de::VariantAccess>::unit_variant
UnitVariantAccess_unit_variant(s) == Ret(s, << >>)

\* a newtype_variant_seed that decodes the payload, as VariantAccess does
UnitVariantAccess_newtype_variant_seed_decoding(s, seed) == Deserialize(s, seed)

\* <UnitVariantAccess as de::VariantAccess>::newtype_variant_seed
UnitVariantAccess_newtype_variant_seed(s, seed) ==
    Fail(s, invalid_type("unit variant", "newtype variant"))

\* <UnitVariantAccess as de::VariantAccess>::tuple_variant
UnitVariantAccess_tuple_variant(s, len, visitor) ==
    Fail(s, invalid_type("unit variant", "tuple variant"))

\* <UnitVariantAccess as de::VariantAccess>::struct_variant
UnitVariantAccess_struct_variant(s, fields, visitor) ==
    Fail(s, invalid_type("unit variant", "struct variant"))

\* <&mut Deserializer as serde::Deserializer>::deserialize_tuple, of the
\* forward_to_deserialize_any! list
deserialize_tuple(s, len, visitor) == deserialize_any(s, visitor)

\* <VariantAccess as de::VariantAccess>::unit_variant
VariantAccess_unit_variant(s) == Bind(read_nil(s), LAMBDA n : Ret(n, << >>))

\* <VariantAccess as de::VariantAccess>::newtype_variant_seed
VariantAccess_newtype_variant_seed(s, seed) == Deserialize(s, seed)

\* <VariantAccess as de::VariantAccess>::tuple_variant
VariantAccess_tuple_variant(s, len, visitor) == deserialize_tuple(s, len, visitor)

\* a struct_variant that takes the payload as a map only
VariantAccess_struct_variant_map_only(s, fields, visitor) ==
    Bind(peek_or_read_marker(s), LAMBDA p :
        IF IsMapMarker(p.val) THEN deserialize_any(p, visitor)
        ELSE Fail(p, <<"TypeMismatch", p.val>>))

\* <VariantAccess as de::VariantAccess>::struct_variant
VariantAccess_struct_variant(s, fields, visitor) ==
    deserialize_tuple(s, Len(fields), visitor)

\* the payload of variant i of the enum E, after variant_seed left the
\* state id: the derived visitor asks the access for unit_variant,
\* newtype_variant_seed, tuple_variant or struct_variant by the kind of
\* the variant
VariantPayload(id, E, i, access) ==
    LET fields == Take(Names, Len(E[i][3])) IN
    IF access = "UnitVariantAccess"
    THEN CASE E[i][2] = "unit" ->
                Bind(UnitVariantAccess_unit_variant(id),
                     LAMBDA n : Ret(n, <<"variant", E, i, << >> >>))
           [] E[i][2] = "newtype" ->
                Bind(UnitVariantAccess_newtype_variant_seed(id, E[i][3][1]),
                     LAMBDA x : Ret(x, <<"variant", E, i, <<x.val>> >>))
           [] E[i][2] = "tuple" ->
                Bind(UnitVariantAccess_tuple_variant(id, Len(E[i][3]), <<"tuple", E[i][3]>>),
                     LAMBDA x : Ret(x, <<"variant", E, i, x.val[2]>>))
           [] E[i][2] = "struct" ->
                Bind(UnitVariantAccess_struct_variant(id, fields,
                                                      <<"struct", fields, E[i][3]>>),
                     LAMBDA x : Ret(x, <<"variant", E, i, x.val[3]>>))
    ELSE CASE E[i][2] = "unit" ->
                Bind(VariantAccess_unit_variant(id),
                     LAMBDA n : Ret(n, <<"variant", E, i, << >> >>))
           [] E[i][2] = "newtype" ->
                Bind(VariantAccess_newtype_variant_seed(id, E[i][3][1]),
                     LAMBDA x : Ret(x, <<"variant", E, i, <<x.val>> >>))
           [] E[i][2] = "tuple" ->
                Bind(VariantAccess_tuple_variant(id, Len(E[i][3]), <<"tuple", E[i][3]>>),
                     LAMBDA x : Ret(x, <<"variant", E, i, x.val[2]>>))
           [] E[i][2] = "struct" ->
                Bind(VariantAccess_struct_variant(id, fields, <<"struct", fields, E[i][3]>>),
                     LAMBDA x : Ret(x, <<"variant", E, i, x.val[3]>>))

\* visitor.visit_enum(access), access being VariantAccess::new(self) or
\* UnitVariantAccess::new(self): the identifier (variant_seed), then the
\* payload by the kind of the variant (unit_variant, newtype_variant_seed,
\* tuple_variant, struct_variant).
visit_enum(s, visitor, access) ==
    CASE visitor[1] = "enum" ->
            Bind(Deserialize(Logged(s, "visit_enum(" \o access \o ")"),
                             <<"variantid", visitor[2]>>),
                 LAMBDA id : VariantPayload(id, visitor[2], id.val[2], access))
      [] visitor[1] = "any" ->
            \* IgnoredAny: data.variant::<IgnoredAny>()?.1.newtype_variant()
            Bind(Deserialize(Logged(s, "visit_enum(" \o access \o ")"), <<"any">>),
                 LAMBDA vid :
                    IF access = "UnitVariantAccess"
                    THEN UnitVariantAccess_newtype_variant_seed(vid, <<"any">>)
                    ELSE VariantAccess_newtype_variant_seed(vid, <<"any">>))
      [] OTHER -> Fail(Logged(s, "visit_enum(" \o access \o ")"), custom("invalid type"))

\* <&mut Deserializer as serde::Deserializer>::deserialize_enum
deserialize_enum(s, visitor) ==
    Bind(peek_or_read_marker(s), LAMBDA p :
        With(marker_to_len(p, p.val), LAMBDA l :
            IF ~IsErr(l) /\ l.val # 1
            THEN Fail(l, <<"LengthMismatch", l.val>>)
            ELSE visit_enum(IF IsErr(l) THEN [l EXCEPT !.err = << >>]
                            ELSE [l EXCEPT !.marker = << >>],
                            visitor,
                            IF IsErr(l) THEN "UnitVariantAccess" ELSE "VariantAccess")))

\* <&mut Deserializer as serde::Deserializer>::deserialize_newtype_struct
deserialize_newtype_struct(s, name, visitor) ==
    IF name = MSGPACK_EXT_STRUCT_NAME
    THEN Bind(take_or_read_marker(s), LAMBDA t :
            Bind(ext_len(t, t.val), LAMBDA l : visit_newtype_struct_ext(l, visitor, l.val)))
    ELSE \* visitor.visit_newtype_struct(self)
         CASE visitor[1] = "newtype" ->
                Bind(Deserialize(Logged(s, "visit_newtype_struct"), visitor[2]),
                     LAMBDA e : Ret(e, <<"newtype", e.val>>))
           [] visitor[1] = "any" -> Deserialize(Logged(s, "visit_newtype_struct"), <<"any">>)
           [] OTHER -> Fail(Logged(s, "visit_newtype_struct"), custom("invalid type"))

\* a deserialize_unit_struct that does not put the marker back
deserialize_unit_struct_dropping(s, visitor) ==
    Bind(take_or_read_marker(s), LAMBDA t :
        IF t.val = Marker.Null \/ t.val = Marker.FixArray
        THEN Visit(t, visitor, "visit_unit", << >>)
        ELSE deserialize_any(t, visitor))

\* <&mut Deserializer as serde::Deserializer>::deserialize_unit_struct
deserialize_unit_struct(s, visitor) ==
    Bind(take_or_read_marker(s), LAMBDA t :
        IF t.val = Marker.Null \/ t.val = Marker.FixArray
        THEN Visit(t, visitor, "visit_unit", << >>)
        ELSE deserialize_any([t EXCEPT !.marker = <<t.val>>], visitor))

\* <&mut Deserializer as serde::Deserializer>::deserialize_i128
deserialize_i128(s, visitor) ==
    Bind(read_128(s), LAMBDA b :
        Visit(b, visitor, "visit_i128", I128_from_be_bytes(b.val)))

\* <&mut Deserializer as serde::Deserializer>::deserialize_u128
deserialize_u128(s, visitor) ==
    Bind(read_128(s), LAMBDA b :
        Visit(b, visitor, "visit_u128", U128_from_be_bytes(b.val)))

\* <&mut Deserializer as serde::Deserializer>::is_human_readable
Deserializer_is_human_readable(s) == is_human_readable(s.config)

\* the visitor a unit struct type passes to deserialize_unit_struct: its
\* own (visit_unit only), or for <<"unit_struct", T>> the visitor of T, a
\* type that still reads the richer forms it was once written as
UnitStructVisitor(T) == IF Len(T) = 1 THEN T ELSE T[2]

\* T::deserialize(&mut de) (seed.deserialize): the method of the Deserializer
\* the type T asks for, with T's visitor.  The methods of the
\* forward_to_deserialize_any! list are deserialize_any.
Deserialize(s, T) ==
    CASE T[1] = "opt" -> deserialize_option(s, T)
      [] T[1] \in {"extstruct", "newtype", "ext"} ->
            deserialize_newtype_struct(
                s,
                IF T[1] = "newtype" THEN "Newtype" ELSE MSGPACK_EXT_STRUCT_NAME,
                IF T[1] = "extstruct" THEN <<"newtype", T[2]>> ELSE T)
      [] T[1] = "enum" -> deserialize_enum(s, T)
      [] T[1] = "unit_struct" -> deserialize_unit_struct(s, UnitStructVisitor(T))
      [] T[1] = "i128" -> deserialize_i128(s, T)
      [] T[1] = "u128" -> deserialize_u128(s, T)
      [] T[1] = "addr" ->
            Bind(deserialize_any(s, IF Deserializer_is_human_readable(s)
                                    THEN <<"str">> ELSE <<"bytes">>),
                 LAMBDA r : Ret(r, <<"addr", r.val[2]>>))
      [] OTHER -> deserialize_any(s, T)

(***************************************************************************)
(* Construction and the top-level operations.                              *)
(***************************************************************************)
\* the default maximum depth (Deserializer::new, Deserializer::from_bytes)
DefaultDepth == 1024

\* no sub-accessor
NoAccess == [kind |-> "none", left |-> 0]

\* a Deserializer over the reader rd, env being the build and the stream
Fresh(rd, env) ==
    [rd |-> rd, config |-> << >>, marker |-> << >>, depth |-> DefaultDepth,
     checks |-> env.checks,
     err |-> << >>, val |-> << >>, acc |-> NoAccess, raised |-> << >>,
     pos |-> 0, mreads |-> 0, low |-> DefaultDepth, under |-> 0, log |-> << >>,
     slices |-> << >>]

\* ReadReader::new
ReadReader_new(bytes, env) == [kind |-> "stream", buf |-> bytes, short |-> env.short]

\* ReadRefReader::new
ReadRefReader_new(bytes) == [kind |-> "ref", buf |-> bytes, short |-> "keep"]

\* Deserializer::new
Deserializer_new(bytes, env) == Fresh(ReadReader_new(bytes, env), env)

\* Deserializer::from_bytes
Deserializer_from_bytes(bytes, env) == Fresh(ReadRefReader_new(bytes), env)

\* HumanReadableConfig::new
HumanReadableConfig_new(C) == <<"HumanReadable">> \o C

\* BinaryConfig::new
BinaryConfig_new(C) == <<"Binary">> \o C

\* StructMapConfig::new
StructMapConfig_new(C) == <<"StructMap">> \o C

\* StructTupleConfig::new
StructTupleConfig_new(C) == <<"StructTuple">> \o C

\* a with_human_readable that wraps the config as with_binary does
Deserializer_with_human_readable_binary(s) ==
    [s EXCEPT !.config = BinaryConfig_new(s.config)]

\* Deserializer::with_human_readable
Deserializer_with_human_readable(s) ==
    [s EXCEPT !.config = HumanReadableConfig_new(s.config)]

\* Deserializer::with_binary
Deserializer_with_binary(s) == [s EXCEPT !.config = BinaryConfig_new(s.config)]

\* Deserializer::set_max_depth
Deserializer_set_max_depth(s, depth) == [s EXCEPT !.depth = depth]

\* whether the operation ended in a panic (the Deserializer is then gone)
Panicked(s) == s.err # << >> /\ s.err[1] = "panic"

\* Deserialize::deserialize(&mut de) for the type T: a new top-level call.
\* What the observer has seen of earlier calls is forgotten, but the
\* position of the reader.
Call(s, T) ==
    Deserialize([s EXCEPT !.err = << >>, !.val = << >>, !.acc = NoAccess,
                          !.raised = << >>,
                          !.mreads = 0, !.low = s.depth, !.under = 0, !.log = << >>,
                          !.slices = << >>], T)

\* the type of a value: the T of from_slice::<T>
RECURSIVE TypeOf(_)
TypeOf(v) ==
    CASE v[1] = "none" -> <<"opt", v[2]>>
      [] v[1] = "some" -> <<"opt", TypeOf(v[2])>>
      [] v[1] = "seq" -> <<"seq", v[2]>>
      [] v[1] = "map" -> <<"map", v[2], v[3]>>
      [] v[1] = "struct" -> <<"struct", v[2], [i \in 1..Len(v[3]) |-> TypeOf(v[3][i])]>>
      [] v[1] = "tuple" -> <<"tuple", [i \in 1..Len(v[2]) |-> TypeOf(v[2][i])]>>
      [] v[1] = "newtype" -> <<"newtype", TypeOf(v[2])>>
      [] v[1] = "variant" -> <<"enum", v[2]>>
      [] OTHER -> <<v[1]>>

\* the wrappers of a Serializer's config that a Deserializer can be given
\* (with_human_readable, with_binary), in the same order
RECURSIVE DecoderConfig(_)
DecoderConfig(cfg) ==
    IF cfg = << >> THEN << >>
    ELSE IF Head(cfg) = "HumanReadable" THEN HumanReadableConfig_new(DecoderConfig(Tail(cfg)))
    ELSE IF Head(cfg) = "Binary" THEN BinaryConfig_new(DecoderConfig(Tail(cfg)))
    ELSE DecoderConfig(Tail(cfg))

\* the Deserializer d taken through with_human_readable and with_binary,
\* innermost wrapper first, as the wrappers of cfg are stacked
RECURSIVE Configured(_, _)
Configured(d, cfg) ==
    IF cfg = << >> THEN d
    ELSE IF Head(cfg) = "HumanReadable"
        THEN Deserializer_with_human_readable(Configured(d, Tail(cfg)))
    ELSE IF Head(cfg) = "Binary" THEN Deserializer_with_binary(Configured(d, Tail(cfg)))
    ELSE Configured(d, Tail(cfg))

(***************************************************************************)
(* The values given to the encoder.                                        *)
(***************************************************************************)
Bobby == <<66, 111, 98, 98, 121>>

\* struct Dog { name: String, age: u8 }
DogNames == << <<110, 97, 109, 101>>, <<97, 103, 101>> >>

Dog == <<"struct", DogNames, << <<"str", Bobby>>, <<"int", 8>> >> >>

\* enum Enum { A, B(u32), C(i16, String), D { a: i16, b: bool } }
Enum ==
    << << <<65>>, "unit", << >> >>,
       << <<66>>, "newtype", << <<"int">> >> >>,
       << <<67>>, "tuple", << <<"int">>, <<"str">> >> >>,
       << <<68>>, "struct", << <<"int">>, <<"bool">> >> >> >>

\* enum Pet { X(Dog), Y(Option<u8>) }
Pet ==
    << << <<88>>, "newtype", << TypeOf(Dog) >> >>,
       << <<89>>, "newtype", << <<"opt", <<"int">>>> >> >> >>

Ints == {0, 5, 127, 128, 256, 65535, -1, -32, -33, -129, -32768}

Scalars ==
    { <<"bool", TRUE>>, <<"bool", FALSE>>, <<"unit_struct">>, <<"addr", <<49, 46>>>> }
    \cup { <<"int", n>> : n \in Ints }
    \cup { <<"str", b>> : b \in { << >>, <<66>>, Bobby } }
    \cup { <<"bytes", b>> : b \in { << >>, <<1>>, <<255, 0>> } }
    \cup { <<"ext", 1, <<7>>>>, <<"ext", -1, <<1, 2>>>>, <<"ext", 5, <<1, 2, 3>>>>,
           <<"ext", 0, << >>>> }

Variants ==
    { <<"variant", Enum, 1, << >>>>,
      <<"variant", Enum, 2, << <<"int", 5>> >>>>,
      <<"variant", Enum, 3, << <<"int", -200>>, <<"str", Bobby>> >>>>,
      <<"variant", Enum, 4, << <<"int", 300>>, <<"bool", TRUE>> >>>>,
      <<"variant", Pet, 1, << Dog >>>>,
      <<"variant", Pet, 2, << <<"none", <<"int">>>> >>>>,
      <<"variant", Pet, 2, << <<"some", <<"int", 5>>>> >>>> }

Structs ==
    { Dog,
      <<"struct", << <<97>> >>, << Dog >> >>,
      <<"struct", << <<97>>, <<98>> >>, << <<"some", <<"int", 5>>>>, <<"none", <<"str">>>> >> >>,
      <<"struct", << <<97>>, <<98>> >>,
        << <<"variant", Enum, 4, << <<"int", 1>>, <<"bool", FALSE>> >>>>,
           <<"seq", <<"int">>, << <<"int", 1>>, <<"int", 2>> >>>> >> >>,
      <<"struct", << >>, << >> >>,
      <<"tuple", << <<"int", 5>>, <<"str", <<66>>>> >>>>,
      <<"newtype", <<"int", 5>>>>,
      <<"newtype", Dog>> }

Simple == Scalars \cup Variants \cup Structs

Containers ==
    { <<"seq", <<"int">>, << >>>>,
      <<"seq", <<"int">>, << <<"int", 1>>, <<"int", 200>> >>>>,
      <<"seq", <<"opt", <<"int">>>>, << <<"some", <<"int", 1>>>>, <<"none", <<"int">>>> >>>>,
      <<"seq", TypeOf(Dog), << Dog, Dog >>>>,
      <<"seq", <<"enum", Enum>>,
        << <<"variant", Enum, 1, << >>>>, <<"variant", Enum, 2, << <<"int", 5>> >>>> >>>>,
      <<"seq", <<"seq", <<"int">>>>, << <<"seq", <<"int">>, << <<"int", 1>> >>>> >>>>,
      <<"map", <<"str">>, <<"int">>, << << <<"str", <<66>>>>, <<"int", 5>> >> >>>>,
      <<"map", <<"int">>, TypeOf(Dog),
        << << <<"int", 1>>, Dog >>, << <<"int", 2>>, Dog >> >>>>,
      <<"map", <<"int">>, <<"int">>, << >>>> }

Options ==
    { <<"some", v>> : v \in Simple \cup Containers }
    \cup { <<"none", T>> : T \in { <<"int">>, <<"str">>, TypeOf(Dog), <<"enum", Enum>> } }
    \cup { <<"some", <<"some", <<"int", 5>>>>>>,
           <<"some", <<"none", <<"int">>>>>>,
           <<"some", <<"some", <<"none", <<"int">>>>>>>> }

Values == Simple \cup Containers \cup Options

\* the contents given to Raw and RawRef: valid UTF-8 ("", "B", "Bobby",
\* U+00E9) and not (ff, ff 00, a lone continuation byte after "B")
RawContents == { << >>, <<66>>, Bobby, <<195, 169>>, <<255>>, <<255, 0>>, <<66, 128>> }

\* the Raw and RawRef values, by their constructors
Raws ==
    { Raw_from_utf8(b) : b \in RawContents }
    \cup { Raw_new_borrowed(b) : b \in { c \in RawContents : Utf8Valid(c) } }
    \cup { RawRef_from_utf8(b) : b \in RawContents }

(***************************************************************************)
(* The buffers and the types given to the decoder.                         *)
(***************************************************************************)
\* 1, 2, fixmap(1), fixarray(1), fixarray(2), fixstr(1), nil, bin8, fixext1
Alphabet == {1, 2, 129, 145, 146, 161, 192, 196, 212}

RECURSIVE Strings(_)
Strings(n) ==
    IF n = 0 THEN { << >> }
    ELSE LET shorter == Strings(n - 1) IN
         shorter \cup { Append(b, x) : b \in { c \in shorter : Len(c) = n - 1 }, x \in Alphabet }

\* longer buffers: the wide markers and values followed by more bytes
Longer ==
    { <<129, 161, 2, 1>>, <<129, 161, 1, 192>>, <<129, 161, 2, 145, 1>>,
      <<220, 0, 1, 1>>, <<220, 0, 1, 161, 1>>, <<221, 0, 0, 0, 1, 1>>,
      <<222, 0, 1, 1, 1>>, <<222, 0, 1, 161, 2, 1>>, <<222, 0, 2, 1, 1, 2, 1>>,
      <<223, 0, 0, 0, 1, 1, 1>>, <<222, 0>>, <<130, 1, 1, 2, 1>>,
      <<130, 161, 97, 1, 161, 98, 2>>, <<130, 161, 98, 1, 161, 97, 2>>,
      <<131, 161, 97, 1, 161, 99, 192, 161, 98, 2>>,
      <<146, 1, 1, 1>>, <<147, 1, 2, 1>>, <<146, 145, 1, 145, 2>>,
      <<212, 1, 1, 1>>, <<213, 1, 1, 2>>, <<199, 2, 1, 1, 2>>, <<199, 0, 1>>,
      <<200, 0, 1, 1, 7>>,
      <<196, 2, 1, 2>>, <<197, 0, 1, 1>>, <<196, 1, 255>>,
      <<217, 1, 1>>, <<218, 0, 1, 1>>, <<161, 255>>, <<162, 195, 169>>,
      <<162, 66, 255>>, <<163, 195, 169, 195>>, <<217, 2, 195, 40, 1>>,
      <<218, 0, 2, 66, 128>>, <<219, 0, 0, 0, 1, 255>>, <<219, 0, 0, 0, 1, 66>>,
      <<204, 200>>, <<205, 1, 0>>, <<206, 0, 0, 1, 0>>, <<208, 128>>,
      <<209, 255, 0>>, <<202, 0, 0, 0, 0>>, <<193>>, <<195>>, <<194, 1>>,
      <<255>>, <<224, 1>>, <<144>>, <<128>>, <<160>>,
      <<196, 16, 0, 0, 0, 0, 0, 0, 0, 0, 0, 0, 0, 0, 0, 0, 0, 1>>,
      <<196, 15, 0, 0, 0, 0, 0, 0, 0, 0, 0, 0, 0, 0, 0, 0, 1>>,
      <<196, 16, 0, 0, 0, 0, 0, 0, 0, 0, 0, 0, 0, 0, 0, 0, 1, 2>>,
      <<196, 16, 255, 255, 255, 255, 255, 255, 255, 255, 255, 255, 255, 255, 255,
        255, 255, 254>>,
      <<196, 16, 1, 0, 0, 0, 0, 0, 0, 0, 0, 0, 0, 0, 0, 0, 0, 0, 192>>,
      <<196, 16, 0, 0, 0, 0, 0, 0, 0, 0, 0, 0, 0, 0, 0, 0, 1>>,
      <<196, 17, 0, 0, 0, 0, 0, 0, 0, 0, 0, 0, 0, 0, 0, 0, 0, 0, 1>>,
      <<197, 0, 16, 0, 0, 0, 0, 0, 0, 0, 0, 0, 0, 0, 0, 0, 0, 0, 1>>,
      <<216, 1, 0, 0, 0, 0, 0, 0, 0, 0, 0, 0, 0, 0, 0, 0, 0, 1>> }

Inputs == Strings(MaxLen) \cup Longer

\* enum Unit1 { "\x01", "\x02"(u8) }: the names are the one-byte strings
\* the alphabet can spell
Small ==
    << << <<1>>, "unit", << >> >>,
       << <<2>>, "newtype", << <<"int">> >> >> >>

\* the types asked of the decoder
Seeds ==
    { <<"any">>, <<"unit">>, <<"int">>, <<"str">>, <<"bytes">>,
      <<"opt", <<"int">>>>, <<"opt", <<"opt", <<"int">>>>>>, <<"opt", <<"seq", <<"int">>>>>>,
      <<"seq", <<"int">>>>, <<"map", <<"int">>, <<"int">>>>,
      <<"take", 0, <<"any">>>>, <<"take", 1, <<"any">>>>,
      <<"tuple", << <<"int">>, <<"int">> >>>>,
      <<"struct", << <<97>>, <<98>> >>, << <<"int">>, <<"int">> >>>>,
      <<"enum", Small>>, <<"ext">>, <<"extstruct", <<"tuple", << <<"int">> >>>>>>,
      <<"newtype", <<"int">>>>, <<"unit_struct">>, <<"i128">>, <<"u128">>, <<"raw">>,
      <<"rawref">>, <<"unit_struct", <<"any">>>> }

\* the build (overflow checks on or off) and what a short read of a stream
\* leaves behind
Envs == [checks : BOOLEAN, short : {"keep", "drain"}]

(***************************************************************************)
(* The state machine.                                                      *)
(*   cfg    the config of the Serializer                                   *)
(*   value  the value last serialized                                      *)
(*   wire   the bytes: what the Serializer wrote, what the decoder is given*)
(*   env    the build and the stream behaviour the decoder runs under      *)
(*   de     the Deserializer, with the outcome of its last call            *)
(*   pre    the Deserializer as it was before its last call                *)
(*   seed   the type asked in the last call                                *)
(*   op     the last operation                                             *)
(*   calls  the number of top-level decode calls made on de                *)
(***************************************************************************)
VARIABLES cfg, value, wire, env, de, pre, seed, op, calls

vars == <<cfg, value, wire, env, de, pre, seed, op, calls>>

DefaultEnv == [checks |-> TRUE, short |-> "keep"]

Idle == Deserializer_from_bytes(<< >>, DefaultEnv)

(***************************************************************************)
(* SpecCodec: a Serializer is configured, a value is serialized, and the   *)
(* bytes are decoded as the type of the value under the same config.       *)
(***************************************************************************)
InitCodec ==
    /\ cfg = << >>
    /\ value = <<"unit">>
    /\ wire = << >>
    /\ env = DefaultEnv
    /\ de = Idle
    /\ pre = Idle
    /\ seed = <<"unit">>
    /\ op = "init"
    /\ calls = 0

Rewrap(C) ==
    /\ Len(cfg) < MaxWrap
    /\ cfg' = C
    /\ op' = "wrap"
    /\ env' = DefaultEnv
    /\ de' = Idle
    /\ pre' = Idle
    /\ seed' = <<"unit">>
    /\ calls' = 0
    /\ UNCHANGED <<value, wire>>

\* Serializer::with_struct_map
Serializer_with_struct_map == Rewrap(StructMapConfig_new(cfg))

\* Serializer::with_struct_tuple
Serializer_with_struct_tuple == Rewrap(StructTupleConfig_new(cfg))

\* Serializer::with_human_readable
Serializer_with_human_readable == Rewrap(HumanReadableConfig_new(cfg))

\* Serializer::with_binary
Serializer_with_binary == Rewrap(BinaryConfig_new(cfg))

\* value.serialize(&mut Serializer) into an empty buffer
Serializer_serialize ==
    \E v \in Values :
        /\ value' = v
        /\ wire' = Serialize(cfg, v)
        /\ op' = "serialize"
        /\ env' = DefaultEnv
        /\ de' = Idle
        /\ pre' = Idle
        /\ seed' = <<"unit">>
        /\ calls' = 0
        /\ UNCHANGED cfg

\* raw.serialize(&mut Serializer) into an empty buffer, raw a Raw or a RawRef
Serializer_serialize_raw ==
    \E raw \in Raws :
        /\ value' = raw
        /\ wire' = IF raw[1] = "raw" THEN Raw_serialize(cfg, raw)
                   ELSE RawRef_serialize(cfg, raw)
        /\ op' = "serialize_raw"
        /\ env' = DefaultEnv
        /\ de' = Idle
        /\ pre' = Idle
        /\ seed' = <<"unit">>
        /\ calls' = 0
        /\ UNCHANGED cfg

\* the bytes just written, decoded from a slice as the type of the value
\* by a Deserializer given the same human-readable and binary wrappers
DecodeSlice ==
    /\ op = "serialize"
    /\ \E e \in Envs :
        LET d == Configured(Deserializer_from_bytes(wire, e), cfg) IN
        /\ env' = e
        /\ pre' = d
        /\ seed' = TypeOf(value)
        /\ de' = Call(d, TypeOf(value))
    /\ op' = "decode"
    /\ calls' = 1
    /\ UNCHANGED <<cfg, value, wire>>

\* the same from a stream
DecodeRead ==
    /\ op = "serialize"
    /\ \E e \in Envs :
        LET d == Configured(Deserializer_new(wire, e), cfg) IN
        /\ env' = e
        /\ pre' = d
        /\ seed' = TypeOf(value)
        /\ de' = Call(d, TypeOf(value))
    /\ op' = "decode"
    /\ calls' = 1
    /\ UNCHANGED <<cfg, value, wire>>

NextCodec ==
    \/ Serializer_with_struct_map
    \/ Serializer_with_struct_tuple
    \/ Serializer_with_human_readable
    \/ Serializer_with_binary
    \/ Serializer_serialize
    \/ Serializer_serialize_raw
    \/ DecodeSlice
    \/ DecodeRead

SpecCodec == InitCodec /\ [][NextCodec]_vars

(***************************************************************************)
(* SpecDecode: from_slice and from_read on a buffer.                       *)
(***************************************************************************)
InitDecode ==
    /\ cfg = << >>
    /\ value = <<"unit">>
    /\ wire \in Inputs
    /\ env \in Envs
    /\ de = Idle
    /\ pre = Idle
    /\ seed = <<"unit">>
    /\ op = "init"
    /\ calls = 0

\* from_slice::<T>(wire)
from_slice ==
    /\ op = "init"
    /\ env.short = "keep"
    /\ \E T \in Seeds :
        LET d == Deserializer_from_bytes(wire, env) IN
        /\ pre' = d
        /\ seed' = T
        /\ de' = Call(d, T)
    /\ op' = "from_slice"
    /\ calls' = 1
    /\ UNCHANGED <<cfg, value, wire, env>>

\* from_read::<R, T>(wire)
from_read ==
    /\ op = "init"
    /\ \E T \in Seeds :
        LET d == Deserializer_new(wire, env) IN
        /\ pre' = d
        /\ seed' = T
        /\ de' = Call(d, T)
    /\ op' = "from_read"
    /\ calls' = 1
    /\ UNCHANGED <<cfg, value, wire, env>>

NextDecode == from_slice \/ from_read

SpecDecode == InitDecode /\ [][NextDecode]_vars

(***************************************************************************)
(* SpecSession: one Deserializer, its maximum depth set and several        *)
(* top-level calls made on it.                                             *)
(***************************************************************************)
\* deepest nesting of the buffers of SpecSession
MaxNest == MaxDepthArg + 1

\* a value nested k deep: arrays of one element ("a"), maps of one entry
\* with the key 1 ("m"), or the two in turn ("am"), around leaf
RECURSIVE Nest(_, _, _)
Nest(shape, k, leaf) ==
    IF k = 0 THEN leaf
    ELSE IF shape = "a" \/ (shape = "am" /\ k % 2 = 1)
         THEN <<145>> \o Nest(shape, k - 1, leaf)
         ELSE <<129, 1>> \o Nest(shape, k - 1, leaf)

\* the buffers: nested values, and pairs of values
SessionInputs ==
    { Nest(shape, k, <<192>>) : shape \in {"a", "m", "am"}, k \in 0..MaxNest }
    \cup { Nest(shape, k, <<212, 1, 7>>) : shape \in {"a", "m", "am"}, k \in 0..(MaxNest - 1) }
    \cup { <<1, 2>>, <<146, 1, 2>>, <<192, 1>>, <<161, 1, 1>>, <<129, 1, 129, 1, 1>>,
           <<129, 2, 129, 2, 1>> }

\* enum Outer { "\x01", "\x02"(Small) }
Outer ==
    << << <<1>>, "unit", << >> >>,
       << <<2>>, "newtype", << <<"enum", Small>> >> >> >>

SessionSeeds ==
    { <<"any">>, <<"int">>, <<"take", 0, <<"any">>>>, <<"opt", <<"int">>>>,
      <<"enum", Outer>> }

InitSession ==
    /\ cfg = << >>
    /\ value = <<"unit">>
    /\ wire \in SessionInputs
    /\ env \in Envs
    /\ \/ de = Deserializer_new(wire, env)
       \/ env.short = "keep" /\ de = Deserializer_from_bytes(wire, env)
    /\ pre = de
    /\ seed = <<"unit">>
    /\ op = "new"
    /\ calls = 0

\* de.set_max_depth(depth)
set_max_depth ==
    /\ ~Panicked(de)
    /\ \E depth \in 0..MaxDepthArg :
        de' = Deserializer_set_max_depth(de, depth)
    /\ pre' = de
    /\ op' = "set_max_depth"
    /\ UNCHANGED <<cfg, value, wire, env, seed, calls>>

\* T::deserialize(&mut de)
deserialize ==
    /\ ~Panicked(de)
    /\ calls < MaxCalls
    /\ \E T \in SessionSeeds :
        /\ seed' = T
        /\ de' = Call(de, T)
    /\ pre' = de
    /\ op' = "deserialize"
    /\ calls' = calls + 1
    /\ UNCHANGED <<cfg, value, wire, env>>

NextSession == set_max_depth \/ deserialize

SpecSession == InitSession /\ [][NextSession]_vars

(***************************************************************************)
(* SpecExt: deserialize_newtype_struct("_ExtStruct") has read an ext       *)
(* header and made the ExtDeserializer (de.acc); the visitor asks it for   *)
(* elements, one next_element_seed per step, going on after an Err if it   *)
(* likes.                                                                  *)
(***************************************************************************)
MaxRequests == 4

\* the types a visitor asks the elements as
ElementSeeds == { <<"int">>, <<"bytes">>, <<"str">>, <<"any">>, <<"unit">>, <<"i128">> }

\* take_or_read_marker and ext_len of deserialize_newtype_struct
ExtHeader(d) == Bind(take_or_read_marker(d), LAMBDA t : ext_len(t, t.val))

\* ExtDeserializer::new(self, len) once the header is read
ExtOpened(d) == Rewind(ExtHeader(d), ExtDeserializer_new(ExtHeader(d).val))

InitExt ==
    /\ cfg = << >>
    /\ value = <<"unit">>
    /\ wire \in Inputs
    /\ env \in Envs
    /\ \E d \in { Deserializer_new(wire, env) } \cup
                (IF env.short = "keep" THEN { Deserializer_from_bytes(wire, env) }
                 ELSE { }) :
        /\ ~IsErr(ExtHeader(d))
        /\ de = ExtOpened(d)
    /\ pre = de
    /\ seed = <<"unit">>
    /\ op = "ExtDeserializer_new"
    /\ calls = 0

\* seq.next_element_seed(seed) on the ExtDeserializer
next_element ==
    /\ ~Panicked(de)
    /\ calls < MaxRequests
    /\ \E T \in ElementSeeds :
        /\ seed' = T
        /\ de' = ExtDeserializer_next_element_seed(
                    [de EXCEPT !.err = << >>, !.val = << >>, !.raised = << >>], T)
    /\ pre' = de
    /\ op' = "next_element_seed"
    /\ calls' = calls + 1
    /\ UNCHANGED <<cfg, value, wire, env>>

NextExt == next_element

SpecExt == InitExt /\ [][NextExt]_vars

(***************************************************************************)
(* SpecReader: a ReadRefReader over a buffer (de.rd) is read from, one     *)
(* read_slice or read_exact_buf per step; seed is <<"len", N>>, the length *)
(* asked for, and value the bytes returned so far.                         *)
(***************************************************************************)
MaxReads == 4

\* the lengths asked for
ReadLens == {0, 1, 2, 4, 5, 6}

\* the buffer of test_as_ref_reader, and shorter ones
ReaderInputs == { <<0, 1, 2, 3, 4, 5, 6, 7, 8, 9, 10>>, <<1, 2, 3>>, <<255>>, << >> }

InitReader ==
    /\ cfg = << >>
    /\ value = <<"bytes", << >>>>
    /\ wire \in ReaderInputs
    /\ env = DefaultEnv
    /\ de = Deserializer_from_bytes(wire, env)
    /\ pre = de
    /\ seed = <<"len", 0>>
    /\ op = "ReadRefReader_new"
    /\ calls = 0

\* the bytes returned so far, after one more read
Returned(r) == IF IsErr(r) THEN value ELSE <<"bytes", value[2] \o r.val>>

\* rd.read_slice(N)
reader_read_slice ==
    /\ calls < MaxReads
    /\ \E N \in ReadLens :
        /\ seed' = <<"len", N>>
        /\ de' = ReadRefReader_read_slice(
                    [de EXCEPT !.err = << >>, !.val = << >>, !.raised = << >>], N)
    /\ value' = Returned(de')
    /\ pre' = de
    /\ op' = "read_slice"
    /\ calls' = calls + 1
    /\ UNCHANGED <<cfg, wire, env>>

\* rd.read_exact_buf(&mut [0; N])
reader_read_exact_buf ==
    /\ calls < MaxReads
    /\ \E N \in ReadLens :
        /\ seed' = <<"len", N>>
        /\ de' = ReadRefReader_read_exact_buf(
                    [de EXCEPT !.err = << >>, !.val = << >>, !.raised = << >>], N)
    /\ value' = Returned(de')
    /\ pre' = de
    /\ op' = "read_exact_buf"
    /\ calls' = calls + 1
    /\ UNCHANGED <<cfg, wire, env>>

NextReader == reader_read_slice \/ reader_read_exact_buf

SpecReader == InitReader /\ [][NextReader]_vars

(***************************************************************************)
(* SpecMarker: the marker cache of one Deserializer.  Each step is one     *)
(* take_or_read_marker, one peek_or_read_marker, or a decode call entered  *)
(* with whatever the cache holds, as the nested calls of visit_some,       *)
(* visit_enum and deserialize_unit_struct are.                             *)
(***************************************************************************)
MaxMarkerOps == 3

\* the buffers: the short ones, and wide headers followed by more bytes
MarkerInputs ==
    Strings(2) \cup
    { <<129, 161, 2, 1>>, <<129, 161, 1, 192>>, <<220, 0, 1, 1>>, <<222, 0, 1, 1, 1>>,
      <<222, 0, 2, 1, 1, 2, 1>>, <<222, 0>>, <<130, 1, 1, 2, 1>>, <<146, 1, 1, 1>>,
      <<212, 1, 1, 1>>, <<199, 2, 1, 1, 2>>, <<196, 2, 1, 2>>, <<217, 1, 1>>,
      <<204, 200>>, <<193>>, <<195>>, <<145, 145, 192>>, <<192, 192, 192>>,
      <<196, 16>> \o [i \in 1..16 |-> 0] \o <<192>> }

\* the types of the decode calls
MarkerSeeds ==
    { <<"any">>, <<"opt", <<"int">>>>, <<"enum", Small>>, <<"unit_struct", <<"any">>>>,
      <<"ext">>, <<"i128">> }

InitMarker ==
    /\ cfg = << >>
    /\ value = <<"unit">>
    /\ wire \in MarkerInputs
    /\ env \in Envs
    /\ \/ de = Deserializer_new(wire, env)
       \/ env.short = "keep" /\ de = Deserializer_from_bytes(wire, env)
    /\ pre = de
    /\ seed = <<"unit">>
    /\ op = "new"
    /\ calls = 0

\* self.take_or_read_marker()
take_marker ==
    /\ ~Panicked(de)
    /\ calls < MaxMarkerOps
    /\ de' = take_or_read_marker([de EXCEPT !.err = << >>, !.val = << >>, !.raised = << >>])
    /\ pre' = de
    /\ op' = "take_or_read_marker"
    /\ calls' = calls + 1
    /\ UNCHANGED <<cfg, value, wire, env, seed>>

\* self.peek_or_read_marker()
peek_marker ==
    /\ ~Panicked(de)
    /\ calls < MaxMarkerOps
    /\ de' = peek_or_read_marker([de EXCEPT !.err = << >>, !.val = << >>, !.raised = << >>])
    /\ pre' = de
    /\ op' = "peek_or_read_marker"
    /\ calls' = calls + 1
    /\ UNCHANGED <<cfg, value, wire, env, seed>>

\* T::deserialize(&mut *self): a decode call on the same instance
nested_deserialize ==
    /\ ~Panicked(de)
    /\ calls < MaxMarkerOps
    /\ \E T \in MarkerSeeds :
        /\ seed' = T
        /\ de' = Call(de, T)
    /\ pre' = de
    /\ op' = "deserialize"
    /\ calls' = calls + 1
    /\ UNCHANGED <<cfg, value, wire, env>>

NextMarker == take_marker \/ peek_marker \/ nested_deserialize

SpecMarker == InitMarker /\ [][NextMarker]_vars

(***************************************************************************)
(* SpecVariant: deserialize_enum has dispatched on the marker and made     *)
(* the access (value: <<"UnitVariantAccess">> or <<"VariantAccess">>), and *)
(* the visitor has had the identifier from variant_seed.  The visitor then *)
(* asks the access, which it owns, for the payload: one of unit_variant,   *)
(* newtype_variant_seed, tuple_variant and struct_variant.                 *)
(***************************************************************************)
\* what follows the identifier: nothing, nil, numbers, arrays, maps
VariantPayloads ==
    { << >>, <<192>>, <<192, 1>>, <<5>>, <<194>>, <<145, 1>>, <<146, 1, 2>>, <<146, 1>>,
      <<147, 1, 2, 3>>, <<130, 161, 97, 1, 161, 98, 2>>, <<130, 1, 1, 2, 2>>,
      <<129, 161, 97, 1>>, <<220, 0, 2, 1, 2>>, <<161, 66>>, <<193>> }

\* the buffers: a bare identifier, or the header of a one-entry map or of a
\* one-element array and the identifier, and then a payload
VariantInputs ==
    { head \o p : head \in { <<161, 65>>, <<1>>, <<129, 161, 65>>, <<129, 1>>, <<145, 1>>,
                              <<222, 0, 1, 2>> },
                  p \in VariantPayloads }

\* the types a newtype variant holds
NewtypeSeeds == { <<"any">>, <<"int">>, <<"opt", <<"int">>>>, <<"seq", <<"int">>>> }

\* the visitors of a tuple variant of two and of a struct variant { a, b }
TupleVisitor == <<"tuple", << <<"int">>, <<"int">> >> >>
StructVisitor == <<"struct", << <<97>>, <<98>> >>, << <<"int">>, <<"int">> >> >>

\* deserialize_enum's dispatch: peek_or_read_marker and marker_to_len
EnumProbe(d) == Bind(peek_or_read_marker(d), LAMBDA p : marker_to_len(p, p.val))

\* the access deserialize_enum makes
EnumAccess(d) ==
    IF IsErr(EnumProbe(d)) THEN <<"UnitVariantAccess">> ELSE <<"VariantAccess">>

\* variant_seed: the identifier, decoded as the visitor's choice (anything)
EnumOpened(d) ==
    Deserialize(IF IsErr(EnumProbe(d)) THEN [EnumProbe(d) EXCEPT !.err = << >>]
                ELSE [EnumProbe(d) EXCEPT !.marker = << >>],
                <<"any">>)

InitVariant ==
    /\ cfg = << >>
    /\ wire \in VariantInputs
    /\ env \in Envs
    /\ \E d \in { Deserializer_new(wire, env) } \cup
                (IF env.short = "keep" THEN { Deserializer_from_bytes(wire, env) }
                 ELSE { }) :
        /\ ~IsErr(peek_or_read_marker(d))
        /\ IsErr(EnumProbe(d)) \/ EnumProbe(d).val = 1
        /\ value = EnumAccess(d)
        /\ de = EnumOpened(d)
        /\ ~IsErr(de)
    /\ pre = de
    /\ seed = <<"unit">>
    /\ op = "variant_seed"
    /\ calls = 0

\* access.unit_variant()
unit_variant ==
    /\ calls = 0
    /\ de' = IF value = <<"UnitVariantAccess">>
             THEN UnitVariantAccess_unit_variant([de EXCEPT !.raised = << >>])
             ELSE VariantAccess_unit_variant([de EXCEPT !.raised = << >>])
    /\ pre' = de
    /\ op' = "unit_variant"
    /\ calls' = 1
    /\ UNCHANGED <<cfg, value, wire, env, seed>>

\* access.newtype_variant_seed(T)
newtype_variant ==
    /\ calls = 0
    /\ \E T \in NewtypeSeeds :
        /\ seed' = T
        /\ de' = IF value = <<"UnitVariantAccess">>
                 THEN UnitVariantAccess_newtype_variant_seed([de EXCEPT !.raised = << >>], T)
                 ELSE VariantAccess_newtype_variant_seed([de EXCEPT !.raised = << >>], T)
    /\ pre' = de
    /\ op' = "newtype_variant"
    /\ calls' = 1
    /\ UNCHANGED <<cfg, value, wire, env>>

\* access.tuple_variant(2, visitor)
tuple_variant ==
    /\ calls = 0
    /\ seed' = TupleVisitor
    /\ de' = IF value = <<"UnitVariantAccess">>
             THEN UnitVariantAccess_tuple_variant([de EXCEPT !.raised = << >>], 2, seed')
             ELSE VariantAccess_tuple_variant([de EXCEPT !.raised = << >>], 2, seed')
    /\ pre' = de
    /\ op' = "tuple_variant"
    /\ calls' = 1
    /\ UNCHANGED <<cfg, value, wire, env>>

\* access.struct_variant(&["a", "b"], visitor)
struct_variant ==
    /\ calls = 0
    /\ seed' = StructVisitor
    /\ de' = IF value = <<"UnitVariantAccess">>
             THEN UnitVariantAccess_struct_variant([de EXCEPT !.raised = << >>],
                                                   seed'[2], seed')
             ELSE VariantAccess_struct_variant([de EXCEPT !.raised = << >>],
                                               seed'[2], seed')
    /\ pre' = de
    /\ op' = "struct_variant"
    /\ calls' = 1
    /\ UNCHANGED <<cfg, value, wire, env>>

NextVariant == unit_variant \/ newtype_variant \/ tuple_variant \/ struct_variant

SpecVariant == InitVariant /\ [][NextVariant]_vars

(***************************************************************************)
(* SpecAccess: deserialize_any has read the header of an array or of a map *)
(* and made the SeqAccess or MapAccess (de.acc); the visitor asks it for   *)
(* elements, keys and values, one request per step, as many as it likes.   *)
(* value is <<"given", n>>: the elements (keys) it has been given.         *)
(***************************************************************************)
MaxAsks == 4

\* arrays and maps of 0 to 3, complete, short or followed by more
AccessInputs ==
    { <<144>>, <<145, 1>>, <<145, 1, 2>>, <<146, 1, 2>>, <<146, 1>>, <<147, 1, 2, 3>>,
      <<220, 0, 2, 1, 2>>, <<146, 145, 1, 192>>, <<145, 161, 66>>,
      <<128>>, <<128, 1>>, <<129, 1, 2>>, <<129, 1, 2, 1, 2>>, <<130, 1, 1, 2, 2>>,
      <<130, 1, 1>>, <<222, 0, 1, 1, 1>>, <<129, 145, 1, 192>> }

\* the types the visitor asks the elements as
AccessSeeds == { <<"any">>, <<"int">> }

\* the header: take_or_read_marker, the length, depth_count!
AccessHeader(d) ==
    Bind(take_or_read_marker(d), LAMBDA t :
        IF IsArrayMarker(t.val)
        THEN Bind(DeclaredLen(t, t.val, Marker.FixArray, 0, Marker.Array16), DepthEnter)
        ELSE Bind(DeclaredLen(t, t.val, Marker.FixMap, 0, Marker.Map16), DepthEnter))

\* SeqAccess::new(self, len) or MapAccess::new(self, len)
AccessOpened(d) ==
    Rewind(AccessHeader(d),
           IF IsArrayMarker(wire[1]) THEN SeqAccess_new(AccessHeader(d).val)
           ELSE MapAccess_new(AccessHeader(d).val))

InitAccess ==
    /\ cfg = << >>
    /\ value = <<"given", 0>>
    /\ wire \in AccessInputs
    /\ env \in Envs
    /\ \E d \in { Deserializer_new(wire, env) } \cup
                (IF env.short = "keep" THEN { Deserializer_from_bytes(wire, env) }
                 ELSE { }) :
        /\ ~IsErr(AccessHeader(d))
        /\ de = AccessOpened(d)
    /\ pre = de
    /\ seed = <<"unit">>
    /\ op = "new"
    /\ calls = 0

\* the elements given, after one more request
Given(r) ==
    IF ~IsErr(r) /\ r.val # << >> THEN <<"given", value[2] + 1>> ELSE value

\* seq.next_element_seed(T)
seq_next_element ==
    /\ de.acc.kind = "SeqAccess"
    /\ calls < MaxAsks
    /\ \E T \in AccessSeeds :
        /\ seed' = T
        /\ de' = SeqAccess_next_element_seed(
                    [de EXCEPT !.err = << >>, !.val = << >>, !.raised = << >>], T)
    /\ value' = Given(de')
    /\ pre' = de
    /\ op' = "next_element_seed"
    /\ calls' = calls + 1
    /\ UNCHANGED <<cfg, wire, env>>

\* map.next_key_seed(T)
map_next_key ==
    /\ de.acc.kind = "MapAccess"
    /\ calls < MaxAsks
    /\ \E T \in AccessSeeds :
        /\ seed' = T
        /\ de' = MapAccess_next_key_seed(
                    [de EXCEPT !.err = << >>, !.val = << >>, !.raised = << >>], T)
    /\ value' = Given(de')
    /\ pre' = de
    /\ op' = "next_key_seed"
    /\ calls' = calls + 1
    /\ UNCHANGED <<cfg, wire, env>>

\* map.next_value_seed(T)
map_next_value ==
    /\ de.acc.kind = "MapAccess"
    /\ calls < MaxAsks
    /\ \E T \in AccessSeeds :
        /\ seed' = T
        /\ de' = MapAccess_next_value_seed(
                    [de EXCEPT !.err = << >>, !.val = << >>, !.raised = << >>], T)
    /\ pre' = de
    /\ op' = "next_value_seed"
    /\ calls' = calls + 1
    /\ UNCHANGED <<cfg, value, wire, env>>

NextAccess == seq_next_element \/ map_next_key \/ map_next_value

SpecAccess == InitAccess /\ [][NextAccess]_vars

(***************************************************************************)
(* The MessagePack format: the extent and the nesting of the first value   *)
(* of a buffer.                                                            *)
(***************************************************************************)
\* n if the buffer holds n bytes, 0 if it does not
Need(b, n) == IF Len(b) >= n THEN n ELSE 0

\* the bytes before the payload (or the items) of the value that starts b:
\* the marker and the length it is followed by; 0 if they are not all there
HeaderLen(b) ==
    LET m == b[1] IN
    CASE m \in {Marker.Str8, Marker.Bin8, Marker.Ext8} -> Need(b, 2)
      [] m \in {Marker.Str16, Marker.Bin16, Marker.Ext16, Marker.Array16, Marker.Map16} ->
            Need(b, 3)
      [] m \in {Marker.Str32, Marker.Bin32, Marker.Ext32, Marker.Array32, Marker.Map32} ->
            Need(b, 5)
      [] OTHER -> 1

\* the length (of a payload) or the count (of items) the header of b declares
Declared(b) ==
    LET m == b[1] IN
    CASE IsFixStr(m) -> m - Marker.FixStr
      [] IsFixArray(m) -> m - Marker.FixArray
      [] IsFixMap(m) -> m - Marker.FixMap
      [] m = Marker.FixExt1 -> 1
      [] m = Marker.FixExt2 -> 2
      [] m = Marker.FixExt4 -> 4
      [] m = Marker.FixExt8 -> 8
      [] m = Marker.FixExt16 -> 16
      [] m \in {Marker.Str8, Marker.Bin8, Marker.Ext8} -> b[2]
      [] m \in {Marker.Str16, Marker.Bin16, Marker.Ext16, Marker.Array16, Marker.Map16} ->
            BE16(SubSeq(b, 2, 3))
      [] OTHER -> BE32(SubSeq(b, 2, 5))

RECURSIVE ValueLen(_)
RECURSIVE ItemsLen(_, _, _)
\* the number of bytes of the first complete value of b, 0 if b does not
\* start with a complete value
ValueLen(b) ==
    IF b = << >> THEN 0
    ELSE
    LET m == b[1]
        h == HeaderLen(b)
    IN  CASE m = Marker.Reserved -> 0
          [] m \in {Marker.U8, Marker.I8} -> Need(b, 2)
          [] m \in {Marker.U16, Marker.I16} -> Need(b, 3)
          [] m \in {Marker.U32, Marker.I32, Marker.F32} -> Need(b, 5)
          [] m \in {Marker.U64, Marker.I64, Marker.F64} -> Need(b, 9)
          [] IsStrMarker(m) \/ IsBinMarker(m) ->
                IF h = 0 \/ Declared(b) > Len(b) THEN 0 ELSE Need(b, h + Declared(b))
          [] IsExtMarker(m) ->
                IF h = 0 \/ Declared(b) > Len(b) THEN 0 ELSE Need(b, h + 1 + Declared(b))
          [] IsArrayMarker(m) ->
                IF h = 0 \/ Declared(b) > Len(b) THEN 0 ELSE ItemsLen(b, h, Declared(b))
          [] IsMapMarker(m) ->
                IF h = 0 \/ Declared(b) > Len(b) THEN 0 ELSE ItemsLen(b, h, 2 * Declared(b))
          [] OTHER -> 1

\* the offset after n more values of b from the offset off, 0 if they are
\* not all there
ItemsLen(b, off, n) ==
    IF n = 0 THEN off
    ELSE LET l == ValueLen(Drop(b, off)) IN
         IF l = 0 THEN 0 ELSE ItemsLen(b, off + l, n - 1)

RECURSIVE Nesting(_)
RECURSIVE ItemsNesting(_, _, _)
\* how deep arrays, maps and ext values nest in the first value of b,
\* a complete value
Nesting(b) ==
    LET m == b[1] IN
    IF IsExtMarker(m) THEN 1
    ELSE IF IsArrayMarker(m) THEN 1 + ItemsNesting(b, HeaderLen(b), Declared(b))
    ELSE IF IsMapMarker(m) THEN 1 + ItemsNesting(b, HeaderLen(b), 2 * Declared(b))
    ELSE 0

\* the deepest of n values of b from the offset off
ItemsNesting(b, off, n) ==
    IF n = 0 THEN 0
    ELSE LET rest == Drop(b, off)
             d == Nesting(rest)
             e == ItemsNesting(b, off + ValueLen(rest), n - 1)
         IN  IF d >= e THEN d ELSE e

(***************************************************************************)
(* Round trip.                                                             *)
(***************************************************************************)
RECURSIVE Parts(_)
RECURSIVE PartsOfAll(_)
\* v and the values inside it
Parts(v) ==
    {v} \cup
    CASE v[1] = "some" -> Parts(v[2])
      [] v[1] = "newtype" -> Parts(v[2])
      [] v[1] = "seq" -> PartsOfAll(v[3])
      [] v[1] = "map" ->
            PartsOfAll([i \in 1..Len(v[4]) |-> v[4][i][1]])
                \cup PartsOfAll([i \in 1..Len(v[4]) |-> v[4][i][2]])
      [] v[1] = "struct" -> PartsOfAll(v[3])
      [] v[1] = "tuple" -> PartsOfAll(v[2])
      [] v[1] = "variant" -> PartsOfAll(v[4])
      [] OTHER -> {}

PartsOfAll(vs) == IF vs = << >> THEN {} ELSE Parts(Head(vs)) \cup PartsOfAll(Tail(vs))

\* whether v holds an Option that is Some of an Option that is None
HasSomeNone(v) == \E p \in Parts(v) : p[1] = "some" /\ p[2][1] = "none"

RECURSIVE Collapsed(_)
\* an Option that is Some^k(None), read as None
Collapsed(v) ==
    IF v[1] = "some" /\ Collapsed(v[2])[1] = "none" THEN <<"none", TypeOf(v[2])>>
    ELSE v

\* C1: in every state reached by decoding, under a config C, the bytes
\* the encoder wrote for a value v under C, the decode has succeeded and
\* its value is v; when v is Some^k(None), the value is None.
C1_RoundTrip ==
    op = "decode" =>
        /\ de.err = << >>
        /\ ~HasSomeNone(value) => de.val = value
        /\ value \in Options => de.val = Collapsed(value)

\* a struct in a struct has made the round trip under StructMap over
\* HumanReadable, read from a stream
C1_RoundTrip_Witness ==
    /\ op = "decode"
    /\ cfg = <<"StructMap", "HumanReadable">>
    /\ value = <<"struct", << <<97>> >>, << Dog >> >>
    /\ de.rd.kind = "stream"
    /\ de.val = value

\* a Some(None) has come back as None
C1_SomeNone_Reached ==
    /\ op = "decode"
    /\ value = <<"some", <<"none", <<"int">>>>>>
    /\ de.val = <<"none", <<"opt", <<"int">>>>>>

(***************************************************************************)
(* Depth protection.                                                       *)
(***************************************************************************)
\* the first call on a Deserializer walks, with a visitor that takes all
\* it is offered, a buffer that starts with a complete value
WalksFirstValue ==
    /\ op = "deserialize"
    /\ calls = 1
    /\ seed = <<"any">>
    /\ ValueLen(wire) > 0

\* C2: for every maximum depth D, a decode that walks a value whose
\* arrays, maps and ext values nest deeper than D returns
\* DepthLimitExceeded.
C2_DepthProtection ==
    (WalksFirstValue /\ Nesting(wire) > pre.depth)
        => de.err = <<"DepthLimitExceeded">>

\* the same for the maximum depths from 1 up: what the counter does ensure
C2_DepthProtection_From1 ==
    (WalksFirstValue /\ pre.depth >= 1 /\ Nesting(wire) > pre.depth)
        => de.err = <<"DepthLimitExceeded">>

\* with the maximum depth 0 and wrapping arithmetic, [nil] is decoded
C2_DepthZero_Reached ==
    /\ WalksFirstValue
    /\ pre.depth = 0
    /\ ~env.checks
    /\ wire = <<145, 192>>
    /\ de.err = << >>
    /\ de.val = <<"seq", <<"any">>, << <<"unit">> >> >>

\* with the maximum depth 0 and overflow checks, the decode panics
C2_DepthZero_Panics ==
    /\ WalksFirstValue
    /\ pre.depth = 0
    /\ env.checks
    /\ wire = <<145, 192>>
    /\ Panicked(de)

\* with the maximum depth 1, two maps nested as enum variants are decoded:
\* deserialize_enum does not count
C2_EnumUncounted_Reached ==
    /\ op = "deserialize"
    /\ calls = 1
    /\ pre.depth = 1
    /\ seed = <<"enum", Outer>>
    /\ wire = <<129, 1, 129, 1, 1>>
    /\ Nesting(wire) = 2
    /\ de.err = << >>

(***************************************************************************)
(* Length mismatch.                                                        *)
(***************************************************************************)
\* from_slice or from_read has decoded a buffer that starts with a whole
\* array or map header, with a visitor that takes at most seed[2] of its
\* elements (entries) and returns
TakesFromContainer ==
    /\ op \in {"from_slice", "from_read"}
    /\ seed[1] = "take"
    /\ wire # << >>
    /\ IsArrayMarker(wire[1]) \/ IsMapMarker(wire[1])
    /\ HeaderLen(wire) > 0

\* K, the number of elements the visitor takes of the N declared
Taken == Min(seed[2], Declared(wire))

RECURSIVE TakesAll(_, _)
\* whether the next n values of the reader of s are decoded without error
TakesAll(s, n) ==
    IF n = 0 THEN TRUE
    ELSE With(Call(s, <<"any">>), LAMBDA r : ~IsErr(r) /\ TakesAll(r, n - 1))

\* whether the visitor returns successfully: the elements it takes decode
VisitorReturns ==
    TakesAll([pre EXCEPT !.rd.buf = Drop(wire, HeaderLen(wire))],
             IF IsMapMarker(wire[1]) THEN 2 * Taken ELSE Taken)

\* the elements (entries) of the value the visitor built
Elements(v) == IF v[1] = "map" THEN v[4] ELSE v[3]

\* C3: when deserialize_any decodes an array or a map of declared length N
\* and the visitor returns successfully having taken K elements, then if
\* K < N the decode returns LengthMismatch(K), N - K being left, and if
\* K = N it returns the visitor's value, nothing being left.
C3_LengthMismatch ==
    (TakesFromContainer /\ VisitorReturns) =>
        /\ Len(Elements(de.val)) = Taken
        /\ de.acc.left = Declared(wire) - Taken
        /\ IF Taken < Declared(wire)
           THEN de.err = <<"LengthMismatch", Taken>>
           ELSE de.err = << >>

\* one element taken of an array of two: LengthMismatch(1)
C3_LengthMismatch_Witness ==
    /\ TakesFromContainer
    /\ VisitorReturns
    /\ wire = <<146, 1, 1>>
    /\ seed[2] = 1
    /\ de.err = <<"LengthMismatch", 1>>

\* one entry taken of a map of two: LengthMismatch(1)
C3_MapMismatch_Reached ==
    /\ TakesFromContainer
    /\ VisitorReturns
    /\ wire = <<130, 1, 1, 2, 1>>
    /\ seed[2] = 1
    /\ de.err = <<"LengthMismatch", 1>>

\* all of an array taken: the visitor's value
C3_AllTaken_Reached ==
    /\ TakesFromContainer
    /\ VisitorReturns
    /\ wire = <<145, 1>>
    /\ seed[2] = 1
    /\ de.err = << >>
    /\ de.val = <<"seq", <<"any">>, << <<"int", 1>> >> >>

(***************************************************************************)
(* Exact consumption.                                                      *)
(***************************************************************************)
\* from_slice or from_read has returned Ok
Decoded == op \in {"from_slice", "from_read"} /\ de.err = << >>

\* C4: when a top-level decode succeeds, whatever the visitor, the bytes
\* taken from the reader are those of the first complete value of the
\* buffer: marker, length header and whole payload.
C4_ExactConsumption == Decoded => de.pos = ValueLen(wire)

\* the same for the types that are not enums and do not read an ext
\* through a newtype struct of their own: what the decoder does ensure
C4_ExactConsumption_Checked ==
    (Decoded /\ seed[1] \notin {"enum", "extstruct"}) => de.pos = ValueLen(wire)

\* fixext1 (tag 1, payload 7) decoded as _ExtStruct((i8,)): Ok((1,)), the
\* payload byte not taken
C4_ExtPayloadLeft_Reached ==
    /\ Decoded
    /\ wire = <<212, 1, 1>>
    /\ seed = <<"extstruct", <<"tuple", << <<"int">> >>>>>>
    /\ de.val = <<"newtype", <<"tuple", << <<"int", 1>> >>>>>>
    /\ de.pos = 2
    /\ ValueLen(wire) = 3

\* the array [1] followed by 1, decoded as an enum: Ok, the byte after
\* the array taken as the payload of the variant
C4_EnumArrayOverrun_Reached ==
    /\ Decoded
    /\ wire = <<145, 1, 1>>
    /\ seed = <<"enum", Small>>
    /\ de.val = <<"variant", Small, 2, << <<"int", 1>> >>>>
    /\ de.pos = 3
    /\ ValueLen(wire) = 2

(***************************************************************************)
(* Options.                                                                *)
(***************************************************************************)
RECURSIVE Innermost(_)
\* the T of Option<...Option<T>>
Innermost(T) == IF T[1] = "opt" THEN Innermost(T[2]) ELSE T

RECURSIVE Layers(_)
\* the number of Options around it
Layers(T) == IF T[1] = "opt" THEN 1 + Layers(T[2]) ELSE 0

RECURSIVE Wrapped(_, _)
\* Some^k(v)
Wrapped(k, v) == IF k = 0 THEN v ELSE <<"some", Wrapped(k - 1, v)>>

\* from_slice or from_read has decoded a buffer that is not empty as an
\* Option<...Option<T>>
DecodesOption ==
    /\ op \in {"from_slice", "from_read"}
    /\ seed[1] = "opt"
    /\ wire # << >>

\* C5: deserialize_option reads one marker.  If it is Null the visitor
\* gets visit_none and nothing more is read.  If it is not, the visitor of
\* each Option layer gets visit_some and the decode of the innermost T
\* then goes exactly as it goes on the same buffer without the Options:
\* same callbacks, same outcome, same markers and bytes read, the first
\* marker being the only one read for all the layers and for T's dispatch.
C5_OptionMarker ==
    DecodesOption =>
        IF wire[1] = Marker.Null
        THEN /\ de.err = << >>
             /\ de.val = <<"none", seed[2]>>
             /\ de.log = <<"visit_none">>
             /\ de.mreads = 1
             /\ de.pos = 1
             /\ de.marker = << >>
        ELSE With(Call(pre, Innermost(seed)), LAMBDA direct :
             /\ de.log = [i \in 1..Layers(seed) |-> "visit_some"] \o direct.log
             /\ de.err = direct.err
             /\ direct.err = << >> => de.val = Wrapped(Layers(seed), direct.val)
             /\ de.mreads = direct.mreads
             /\ de.pos = direct.pos
             /\ de.rd = direct.rd
             /\ de.marker = direct.marker
             /\ Innermost(seed) = <<"int">> => de.mreads = 1)

\* Option<Option<u8>> on the byte 01: two visit_some, then visit_u8 of the
\* one marker read
C5_OptionMarker_Witness ==
    /\ DecodesOption
    /\ seed = <<"opt", <<"opt", <<"int">>>>>>
    /\ wire = <<1>>
    /\ de.log = <<"visit_some", "visit_some", "visit_u8">>
    /\ de.val = <<"some", <<"some", <<"int", 1>>>>>>
    /\ de.mreads = 1
    /\ de.pos = 1

\* Option<Vec<u8>> on [1, 2]: the array marker read once, then the elements
C5_OptionSeq_Reached ==
    /\ DecodesOption
    /\ seed = <<"opt", <<"seq", <<"int">>>>>>
    /\ wire = <<146, 1, 2>>
    /\ de.val = <<"some", <<"seq", <<"int">>, << <<"int", 1>>, <<"int", 2>> >>>>>>
    /\ de.mreads = 3

(***************************************************************************)
(* Enums.                                                                  *)
(***************************************************************************)
\* from_slice or from_read has decoded, as an enum, a buffer that starts
\* with a marker and the whole of the length that follows it
DecodesEnum ==
    /\ op \in {"from_slice", "from_read"}
    /\ seed[1] = "enum"
    /\ wire # << >>
    /\ HeaderLen(wire) > 0

\* the markers marker_to_len has a length for
HasLen(m) == IsFixMap(m) \/ m \in {Marker.Map16, Marker.Map32} \/ IsFixArray(m)

\* the markers of maps and arrays
IsContainerMarker(m) == IsMapMarker(m) \/ IsArrayMarker(m)

\* the decode of the variant identifier alone from the bytes after the first
\* skip bytes of the buffer
IdentifierAfter(skip) ==
    Call([pre EXCEPT !.rd.buf = Drop(wire, skip), !.pos = skip],
         <<"variantid", seed[2]>>)

\* deserialize_enum, Container being the markers it takes as containers:
\*  - a container of length 1: VariantAccess, the identifier decoded from
\*    the bytes after the header and the payload after it;
\*  - a container of length n # 1: LengthMismatch(n), no visitor called;
\*  - any other marker: UnitVariantAccess, and the run is the decode of the
\*    identifier from the start of the buffer, the marker read once.
EnumDispatch(Container(_)) ==
    DecodesEnum =>
        IF Container(wire[1])
        THEN IF Declared(wire) = 1
             THEN With(IdentifierAfter(HeaderLen(wire)), LAMBDA id :
                    /\ de.log # << >>
                    /\ Head(de.log) = "visit_enum(VariantAccess)"
                    /\ SubSeq(de.log, 2, 1 + Len(id.log)) = id.log
                    /\ IF IsErr(id) THEN de.err = id.err /\ de.pos = id.pos
                       ELSE /\ de.pos > id.pos \/ de.err # << >>
                            /\ de.err = << >> => de.val[3] = id.val[2])
             ELSE /\ de.err = <<"LengthMismatch", Declared(wire)>>
                  /\ de.log = << >>
                  /\ de.pos = HeaderLen(wire)
        ELSE With(IdentifierAfter(0), LAMBDA id :
                /\ de.log = <<"visit_enum(UnitVariantAccess)">> \o id.log
                /\ de.pos = id.pos
                /\ de.mreads = id.mreads
                /\ de.rd = id.rd
                /\ de.mreads = 1
                /\ IsErr(id) => de.err = id.err
                /\ de.err = << >> => de.val[3] = id.val[2] /\ de.val[4] = << >>)

\* C6 (amended): deserialize_enum peeks the marker; fixmap, map16, map32
\* and fixarray are its containers: with length 1 it enters VariantAccess
\* and reads identifier and payload from the following bytes, with length
\* n # 1 it fails with LengthMismatch(n); every other marker, array16 and
\* array32 among them, enters UnitVariantAccess with the marker cached,
\* and the identifier decode consumes that marker: no byte is lost or read
\* twice.
C6_EnumDispatch == EnumDispatch(HasLen)

\* C6 as stated: the same with every map and array marker a container
C6_EnumDispatch_AnyContainer == EnumDispatch(IsContainerMarker)

\* {"\x02": 1} decoded as the newtype variant through VariantAccess
C6_EnumDispatch_Witness ==
    /\ DecodesEnum
    /\ wire = <<129, 161, 2, 1>>
    /\ de.log = <<"visit_enum(VariantAccess)", "visit_borrowed_str", "visit_u8">>
    /\ de.val = <<"variant", Small, 2, << <<"int", 1>> >>>>

\* "\x01" decoded as the unit variant through UnitVariantAccess
C6_UnitVariant_Reached ==
    /\ DecodesEnum
    /\ wire = <<161, 1>>
    /\ de.log = <<"visit_enum(UnitVariantAccess)", "visit_borrowed_str">>
    /\ de.val = <<"variant", Small, 1, << >>>>
    /\ de.mreads = 1
    /\ de.pos = 2

\* a fixarray of two: LengthMismatch(2)
C6_LengthMismatch_Reached ==
    /\ DecodesEnum
    /\ wire = <<146, 1, 1>>
    /\ de.err = <<"LengthMismatch", 2>>

\* an array16 of length 1 goes to UnitVariantAccess
C6_Array16_Reached ==
    /\ DecodesEnum
    /\ wire = <<220, 0, 1, 1>>
    /\ de.log # << >>
    /\ Head(de.log) = "visit_enum(UnitVariantAccess)"

(***************************************************************************)
(* Zero-copy.                                                              *)
(***************************************************************************)
\* the number of callbacks of the set cbs the visitors have received
Delivered(cbs) == Cardinality({i \in 1..Len(de.log) : de.log[i] \in cbs})

\* C7: a decoder that reads from a slice (ReadRefReader) hands every
\* string, bin and ext payload to the visitor through visit_borrowed_str
\* or visit_borrowed_bytes, as a Borrowed sub-slice of the input buffer;
\* a decoder that reads from a stream (ReadReader) hands every payload
\* as Copied through visit_str or visit_bytes.
C7_ZeroCopy ==
    op \in {"from_slice", "from_read"} =>
        /\ seed \notin { <<"i128">>, <<"u128">> } =>
                Len(de.slices) = Delivered(StrCallbacks \cup BytesCallbacks)
        /\ IF op = "from_slice"
           THEN /\ \A i \in 1..Len(de.slices) :
                        /\ de.slices[i][1] = "Borrowed"
                        /\ de.slices[i][2] + de.slices[i][3] <= Len(wire)
                /\ Delivered({"visit_str", "visit_bytes"}) = 0
           ELSE /\ \A i \in 1..Len(de.slices) : de.slices[i][1] = "Copied"
                /\ Delivered({"visit_borrowed_str", "visit_borrowed_bytes"}) = 0

\* from a slice, the two strings of {"a": 1, "b": 2} are borrowed from the
\* buffer at the offsets 2 and 5
C7_ZeroCopy_Witness ==
    /\ op = "from_slice"
    /\ seed = <<"any">>
    /\ wire = <<130, 161, 97, 1, 161, 98, 2>>
    /\ de.slices = << <<"Borrowed", 2, 1>>, <<"Borrowed", 5, 1>> >>
    /\ de.log = <<"visit_map", "visit_borrowed_str", "visit_u8",
                  "visit_borrowed_str", "visit_u8">>

\* from a stream, the payload of an ext is a copy
C7_Copied_Reached ==
    /\ op = "from_read"
    /\ seed = <<"ext">>
    /\ wire = <<212, 1, 1>>
    /\ de.slices = << <<"Copied", 2, 1>> >>
    /\ de.err = << >>
    /\ Delivered({"visit_bytes"}) = 1

(***************************************************************************)
(* The configs.                                                            *)
(***************************************************************************)
RECURSIVE Concat(_)
\* the byte strings of ss, one after the other
Concat(ss) == IF ss = << >> THEN << >> ELSE Head(ss) \o Concat(Tail(ss))

StartsWith(b, p) == Len(b) >= Len(p) /\ Take(b, Len(p)) = p

\* the struct v as an array: the length, then the values of the fields
ArrayFramed(C, v) ==
    WriteArrayLen(Len(v[3])) \o Concat([i \in 1..Len(v[3]) |-> Serialize(C, v[3][i])])

\* the struct v as a map: the length, then for each field its name as a
\* string and its value
MapFramed(C, v) ==
    WriteMapLen(Len(v[3]))
        \o Concat([i \in 1..Len(v[3]) |-> WriteStr(v[2][i]) \o Serialize(C, v[3][i])])

\* the bytes up to the end of the identifier of the variant v, the
\* identifier being the bytes ident: a unit variant is its identifier, any
\* other a map of one entry whose key is the identifier
UpToIdent(v, ident) ==
    (IF v[2][v[3]][2] = "unit" THEN << >> ELSE WriteMapLen(1)) \o ident

\* the variant v has been written with its name, a string, as identifier
WrittenByName(v) == StartsWith(wire, UpToIdent(v, WriteStr(v[2][v[3]][1])))

C8_DefaultStruct_Reached ==
    /\ op = "serialize"
    /\ cfg = << >>
    /\ value = Dog
    /\ wire = <<146, 165>> \o Bobby \o <<8>>

\* C9: under StructMap(inner), whatever inner is, a struct of n fields is
\* written as the map length n and then, for each field in declaration
\* order, its name as a string and its value; the identifier of a variant
\* and the human-readable flag are those of inner.  So {name: "Bobby",
\* age: 8} under StructMap(Default) is
\* 82 a4 6e 61 6d 65 a5 42 6f 62 62 79 a3 61 67 65 08.
C9_StructMap ==
    (op = "serialize" /\ cfg # << >> /\ Head(cfg) = "StructMap") =>
        /\ value[1] = "struct" => wire = MapFramed(cfg, value)
        /\ value[1] = "variant" =>
                StartsWith(wire,
                           UpToIdent(value,
                                     write_variant_ident(Tail(cfg), cfg, value[3] - 1,
                                                         value[2][value[3]][1])))
        /\ is_human_readable(cfg) = is_human_readable(Tail(cfg))
        /\ value[1] = "addr" => wire = Serialize(Tail(cfg), value)
        /\ (cfg = <<"StructMap">> /\ value = Dog) =>
                wire = <<130, 164, 110, 97, 109, 101, 165, 66, 111, 98, 98, 121,
                         163, 97, 103, 101, 8>>

\* Dog has been written under StructMap(Default)
C9_StructMap_Witness ==
    /\ op = "serialize"
    /\ cfg = <<"StructMap">>
    /\ value = Dog
    /\ wire = <<130, 164, 110, 97, 109, 101, 165, 66, 111, 98, 98, 121,
                163, 97, 103, 101, 8>>

\* a struct has been written under StructMap(HumanReadable(Default))
C9_StructMapOverInner_Reached ==
    /\ op = "serialize"
    /\ cfg = <<"StructMap", "HumanReadable">>
    /\ value = <<"struct", << <<97>> >>, << Dog >> >>
    /\ wire = <<129, 161, 97>> \o MapFramed(cfg, Dog)
    /\ is_human_readable(cfg)

RECURSIVE Outermost(_, _)
\* the outermost wrapper of the config c that is one of ws, "Default" when
\* there is none
Outermost(c, ws) ==
    IF c = << >> THEN "Default"
    ELSE IF Head(c) \in ws THEN Head(c)
    ELSE Outermost(Tail(c), ws)

\* C10: for every config made of StructMap, StructTuple, HumanReadable and
\* Binary wrappers around Default, structs are framed by the outermost of
\* StructMap and StructTuple (as arrays when there is neither), the
\* human-readable flag is set by the outermost of HumanReadable and Binary
\* (false when there is neither), and the identifier of a variant is its
\* name.
C10_Composition ==
    op = "serialize" =>
        /\ value[1] = "struct" =>
                wire = IF Outermost(cfg, {"StructMap", "StructTuple"}) = "StructMap"
                       THEN MapFramed(cfg, value)
                       ELSE ArrayFramed(cfg, value)
        /\ is_human_readable(cfg)
                <=> Outermost(cfg, {"HumanReadable", "Binary"}) = "HumanReadable"
        /\ value[1] = "addr" =>
                wire = IF Outermost(cfg, {"HumanReadable", "Binary"}) = "HumanReadable"
                       THEN WriteStr(value[2])
                       ELSE WriteBin(value[2])
        /\ value[1] = "variant" => WrittenByName(value)

\* StructTuple(StructMap(Default)) has written Dog as an array
C10_Composition_Witness ==
    /\ op = "serialize"
    /\ cfg = <<"StructTuple", "StructMap">>
    /\ value = Dog
    /\ wire = <<146, 165>> \o Bobby \o <<8>>

\* StructMap(StructTuple(Default)) has written Dog as a map
C10_MapOverTuple_Reached ==
    /\ op = "serialize"
    /\ cfg = <<"StructMap", "StructTuple">>
    /\ value = Dog
    /\ wire = MapFramed(cfg, Dog)
    /\ Head(wire) = 130

\* Binary(HumanReadable(Default)) is not human-readable
C10_BinaryOverHuman_Reached ==
    /\ op = "serialize"
    /\ cfg = <<"Binary", "HumanReadable">>
    /\ value = <<"addr", <<49, 46>>>>
    /\ wire = <<196, 2, 49, 46>>

\* HumanReadable(Binary(Default)) is human-readable
C10_HumanOverBinary_Reached ==
    /\ op = "serialize"
    /\ cfg = <<"HumanReadable", "Binary">>
    /\ value = <<"addr", <<49, 46>>>>
    /\ wire = <<162, 49, 46>>

(***************************************************************************)
(* The human-readable toggle.                                              *)
(***************************************************************************)
\* whether no part of v chooses its form by the human-readable flag
FlagBlind(v) == \A p \in Parts(v) : p[1] # "addr"

\* the outermost wrapper of the config is HumanReadable or Binary
Toggled == cfg # << >> /\ Head(cfg) \in {"HumanReadable", "Binary"}

\* C11: for every inner config C, HumanReadable(C) reports
\* is_human_readable true and Binary(C) false, and both write the struct
\* length, each struct field and the variant identifier exactly as C does
\* through the same Serializer, so a value with no part that looks at the
\* flag has the bytes it has under C; a Deserializer that has been through
\* with_human_readable reports true, one through with_binary false.
C11_HumanReadableToggle ==
    (op \in {"serialize", "decode"} /\ Toggled) =>
        /\ is_human_readable(cfg) = (Head(cfg) = "HumanReadable")
        /\ \A n \in 0..17 :
                write_struct_len(cfg, cfg, n) = write_struct_len(Tail(cfg), cfg, n)
        /\ value[1] = "struct" =>
                \A i \in 1..Len(value[3]) :
                    write_struct_field(cfg, cfg, value[2][i], value[3][i])
                        = write_struct_field(Tail(cfg), cfg, value[2][i], value[3][i])
        /\ value[1] = "variant" =>
                write_variant_ident(cfg, cfg, value[3] - 1, value[2][value[3]][1])
                    = write_variant_ident(Tail(cfg), cfg, value[3] - 1,
                                          value[2][value[3]][1])
        /\ FlagBlind(value) => wire = Serialize(Tail(cfg), value)
        /\ op = "decode" =>
                /\ de.config = DecoderConfig(cfg)
                /\ Head(de.config) = Head(cfg)
                /\ Deserializer_is_human_readable(de) = (Head(cfg) = "HumanReadable")

\* HumanReadable(StructMap(Default)) has written Dog as StructMap(Default)
\* does, and the Deserializer through with_human_readable reports true
C11_HumanReadableToggle_Witness ==
    /\ op = "decode"
    /\ cfg = <<"HumanReadable", "StructMap">>
    /\ value = Dog
    /\ wire = Serialize(<<"StructMap">>, Dog)
    /\ Head(wire) = 130
    /\ de.config = <<"HumanReadable">>
    /\ Deserializer_is_human_readable(de)

\* a Deserializer through with_human_readable and then with_binary reports
\* false, and reads the bytes form of a flag-dependent value
C11_BinaryDecoder_Reached ==
    /\ op = "decode"
    /\ cfg = <<"Binary", "HumanReadable">>
    /\ value = <<"addr", <<49, 46>>>>
    /\ de.config = <<"Binary", "HumanReadable">>
    /\ ~Deserializer_is_human_readable(de)
    /\ de.log = <<"visit_borrowed_bytes">>
    /\ de.val = value

(***************************************************************************)
(* The variant identifier of DefaultConfig.                                *)
(***************************************************************************)
\* a variant has been written under DefaultConfig
WritesDefaultVariant == op = "serialize" /\ cfg = << >> /\ value[1] = "variant"

\* the variant_index and the name write_variant_ident is given for value
IndexOf(v) == v[3] - 1

NameOf(v) == v[2][v[3]][1]

\* C12, what the function does: under DefaultConfig write_variant_ident
\* writes the name
\* of the variant as a string and does not look at variant_index: the
\* bytes are those of the name whatever index is passed.
C12_VariantIdentByName ==
    WritesDefaultVariant =>
        /\ \A j \in 0..Len(value[2]) :
                write_variant_ident(cfg, cfg, j, NameOf(value)) = WriteStr(NameOf(value))
        /\ StartsWith(wire, UpToIdent(value, WriteStr(NameOf(value))))
        /\ IsStrMarker(wire[Len(UpToIdent(value, << >>)) + 1])

\* C12: under DefaultConfig enum variants are written as integers:
\* write_variant_ident encodes the index of the variant, not its name.
C12_VariantIdentByIndex ==
    WritesDefaultVariant =>
        /\ write_variant_ident(cfg, cfg, IndexOf(value), NameOf(value))
                = WriteSint(IndexOf(value))
        /\ StartsWith(wire, UpToIdent(value, WriteSint(IndexOf(value))))

\* Enum::C(-200, "Bobby"), the variant of index 2, has been written under
\* DefaultConfig with the identifier "C"
C12_VariantIdentByName_Witness ==
    /\ WritesDefaultVariant
    /\ value = <<"variant", Enum, 3, << <<"int", -200>>, <<"str", Bobby>> >>>>
    /\ IndexOf(value) = 2
    /\ Take(wire, 3) = <<129, 161, 67>>

\* the unit variant Enum::A is the string "A" and not the integer 0
C12_UnitVariantName_Reached ==
    /\ WritesDefaultVariant
    /\ value = <<"variant", Enum, 1, << >>>>
    /\ wire = <<161, 65>>
    /\ wire # WriteSint(IndexOf(value))

(***************************************************************************)
(* Raw and RawRef.                                                         *)
(***************************************************************************)
\* a Raw or a RawRef has been serialized
WritesRaw == op = "serialize_raw"

\* the bytes value holds and whether they are a str
RawBytes == IF value[1] = "raw" THEN Raw_as_bytes(value) ELSE RawRef_as_bytes(value)

RawIsStr == IF value[1] = "raw" THEN Raw_is_str(value) ELSE RawRef_is_str(value)

\* C13, what serialize does: a Raw or RawRef whose content is valid UTF-8 is
\* serialized through serialize_str, as a MessagePack string; one whose
\* content is not valid UTF-8 is serialized through serialize_bytes, as a
\* MessagePack bin, under every config.
C13_RawByValidity ==
    WritesRaw =>
        /\ RawIsStr = Utf8Valid(RawBytes)
        /\ IF RawIsStr
           THEN wire = WriteStr(RawBytes) /\ IsStrMarker(wire[1])
           ELSE wire = WriteBin(RawBytes) /\ IsBinMarker(wire[1])

\* C13: every Raw and RawRef, valid UTF-8 or not, is serialized through
\* the string serializer, as a MessagePack string, never as bin.
C13_RawAlwaysString ==
    WritesRaw => wire = WriteStr(RawBytes) /\ IsStrMarker(wire[1])

\* Raw::from_utf8(vec![0xff]) has been written as c4 01 ff
C13_RawByValidity_Witness ==
    /\ WritesRaw
    /\ value = Raw_from_utf8(<<255>>)
    /\ Raw_is_err(value)
    /\ wire = <<196, 1, 255>>

\* RawRef::new("Bobby") has been written as a fixstr
C13_RawRefStr_Reached ==
    /\ WritesRaw
    /\ value = RawRef_new(Bobby)
    /\ wire = <<165>> \o Bobby

\* RawRef::from_utf8(&[0xff, 0]) has been written as c4 02 ff 00
C13_RawRefBin_Reached ==
    /\ WritesRaw
    /\ value = RawRef_from_utf8(<<255, 0>>)
    /\ wire = <<196, 2, 255, 0>>

\* from_slice or from_read has decoded, as a Raw, a buffer that starts with
\* a whole string or bin value
DecodesRaw ==
    /\ op \in {"from_slice", "from_read"}
    /\ seed = <<"raw">>
    /\ wire # << >>
    /\ IsStrMarker(wire[1]) \/ IsBinMarker(wire[1])
    /\ ValueLen(wire) > 0

\* the payload of the string or bin value that starts the buffer
Payload == SubSeq(wire, HeaderLen(wire) + 1, HeaderLen(wire) + Declared(wire))

\* C14: decoding a Raw from a value with a string marker and from a value
\* with a bin marker succeeds whatever the payload; as_bytes() of the Raw
\* is the payload, is_str() is true exactly when the payload is valid
\* UTF-8 and is_err() otherwise, a string-marker payload that is not valid
\* UTF-8 included.
C14_RawTolerant ==
    DecodesRaw =>
        /\ de.err = << >>
        /\ de.val[1] = "raw"
        /\ Raw_as_bytes(de.val) = Payload
        /\ Raw_is_str(de.val) = Utf8Valid(Payload)
        /\ Raw_is_err(de.val) = ~Utf8Valid(Payload)
        /\ de.val[2] = (IF op = "from_slice" THEN "Borrowed" ELSE "Owned")

\* a1 ff, a string marker over a byte that is not UTF-8, decoded from a
\* slice: a Raw that is_err and holds ff
C14_RawTolerant_Witness ==
    /\ DecodesRaw
    /\ op = "from_slice"
    /\ wire = <<161, 255>>
    /\ de.err = << >>
    /\ Raw_is_err(de.val)
    /\ Raw_as_bytes(de.val) = <<255>>
    /\ de.log = <<"visit_borrowed_bytes">>

\* c4 02 01 02, a bin marker over valid UTF-8, decoded from a stream: a Raw
\* that is_str
C14_BinStr_Reached ==
    /\ DecodesRaw
    /\ op = "from_read"
    /\ wire = <<196, 2, 1, 2>>
    /\ Raw_is_str(de.val)
    /\ Raw_as_str(de.val) = << <<1, 2>> >>
    /\ de.log = <<"visit_bytes">>

\* a2 c3 a9, a string marker over U+00E9: a Raw that is_str
C14_Str_Reached ==
    /\ DecodesRaw
    /\ wire = <<162, 195, 169>>
    /\ Raw_is_str(de.val)
    /\ de.log = <<"visit_borrowed_str">>

(***************************************************************************)
(* 128-bit integers.                                                       *)
(***************************************************************************)
\* from_slice or from_read has decoded a buffer that is not empty as an
\* i128 or a u128
Decodes128 ==
    /\ op \in {"from_slice", "from_read"}
    /\ seed \in { <<"i128">>, <<"u128">> }
    /\ wire # << >>

\* the sixteen bytes after the bin8 header
Sixteen == SubSeq(wire, 3, 18)

\* C15: deserialize_i128 and deserialize_u128 succeed exactly when the
\* next value is a bin8 of length 16, and return its sixteen bytes read as
\* a big-endian number; any marker but bin8 fails with TypeMismatch of that
\* marker, nothing but the marker read; a bin8 whose length byte is not 16
\* fails with LengthMismatch(16), the payload not read.
C15_Int128 ==
    Decodes128 =>
        /\ de.err = << >> <=>
                (wire[1] = Marker.Bin8 /\ Len(wire) >= 18 /\ wire[2] = 16)
        /\ de.err = << >> =>
                /\ de.val = <<"wide", IF seed = <<"i128">> THEN "visit_i128"
                                      ELSE "visit_u128",
                              IF seed = <<"i128">> THEN I128_from_be_bytes(Sixteen)
                              ELSE U128_from_be_bytes(Sixteen)>>
                /\ de.pos = 18
        /\ wire[1] # Marker.Bin8 =>
                de.err = <<"TypeMismatch", wire[1]>> /\ de.pos = 1
        /\ (wire[1] = Marker.Bin8 /\ Len(wire) >= 2 /\ wire[2] # 16) =>
                de.err = <<"LengthMismatch", 16>> /\ de.pos = 2 /\ de.slices = << >>

\* c4 10 and the sixteen bytes 00 .. 01 02 decoded as i128: 258
C15_Int128_Witness ==
    /\ Decodes128
    /\ seed = <<"i128">>
    /\ wire = <<196, 16, 0, 0, 0, 0, 0, 0, 0, 0, 0, 0, 0, 0, 0, 0, 1, 2>>
    /\ de.err = << >>
    /\ de.val = <<"wide", "visit_i128", 258>>

\* sixteen bytes ff .. fe: -2 as i128
C15_Negative_Reached ==
    /\ Decodes128
    /\ seed = <<"i128">>
    /\ Len(wire) = 18
    /\ wire[3] = 255
    /\ de.err = << >>
    /\ de.val = <<"wide", "visit_i128", -2>>

\* the same bytes as u128: a number of sixteen significant bytes
C15_Unsigned_Reached ==
    /\ Decodes128
    /\ seed = <<"u128">>
    /\ Len(wire) = 18
    /\ wire[3] = 255
    /\ de.err = << >>
    /\ de.val[3] = <<"limbs", Sixteen>>

\* a bin8 of length 15: LengthMismatch(16)
C15_Fifteen_Reached ==
    /\ Decodes128
    /\ wire[1] = Marker.Bin8
    /\ Len(wire) = 17
    /\ wire[2] = 15
    /\ de.err = <<"LengthMismatch", 16>>

\* a bin16 of length 16: TypeMismatch(Bin16)
C15_Bin16_Reached ==
    /\ Decodes128
    /\ wire[1] = Marker.Bin16
    /\ de.err = <<"TypeMismatch", Marker.Bin16>>

(***************************************************************************)
(* The ext sub-decoder.                                                    *)
(***************************************************************************)
\* the moves of ExtDeserializer.state
ExtMoves ==
    { <<"New", "ReadTag">>, <<"ReadTag", "ReadBinary">> }

\* what one element request does
ExtRequest ==
    LET from == de.acc.state
        to == de'.acc.state
        ok == de'.err = << >>
        len == de.acc.len
        bytes == SubSeq(wire, de.pos + 1, de.pos + len)
        cb == IF de.rd.kind = "ref" THEN "visit_borrowed_bytes" ELSE "visit_bytes"
    IN
    /\ from = to \/ <<from, to>> \in ExtMoves
    /\ de'.acc.len = len
    /\ de'.err # <<"panic", "unreachable">>
    /\ (from = "New" /\ ok) =>
            /\ to = "ReadTag"
            /\ de'.pos = de.pos + 1
            /\ de'.log = Append(de.log, "visit_i8")
            /\ de'.val = Answer(seed', "visit_i8", AsI8(wire[de.pos + 1]))
            /\ de'.val # << >>
    /\ (from = "ReadTag" /\ ok) =>
            /\ to = "ReadBinary"
            /\ de'.pos = de.pos + len
            /\ de'.log = Append(de.log, cb)
            /\ de'.val = Answer(seed', cb, bytes)
            /\ de'.val # << >>
            /\ de'.slices = Append(de.slices,
                    <<IF de.rd.kind = "ref" THEN "Borrowed" ELSE "Copied", de.pos, len>>)
    /\ from = "ReadBinary" =>
            /\ ok
            /\ de'.val = << >>
            /\ to = "ReadBinary"
            /\ de'.rd = de.rd
            /\ de'.pos = de.pos
            /\ de'.log = de.log
            /\ de'.slices = de.slices

\* C16: an ExtDeserializer made with the length len gives two elements,
\* the tag first (one byte read, visit_i8) and then the payload of exactly
\* len bytes (visit_borrowed_bytes from a slice, visit_bytes from a stream);
\* every later request is the end of the sequence and reads nothing; the
\* state only moves New -> ReadTag -> ReadBinary; no element is decoded in
\* ReadBinary, so the unreachable!() arm is never run.
C16_ExtSequence == [][ExtRequest]_vars

\* c7 02 01 01 02 from a slice, asked four times: tag 1, payload 01 02, then
\* twice the end
C16_ExtSequence_Witness ==
    /\ op = "next_element_seed"
    /\ wire = <<199, 2, 1, 1, 2>>
    /\ calls = 4
    /\ de.acc.state = "ReadBinary"
    /\ pre.acc.state = "ReadBinary"
    /\ de.err = << >>
    /\ de.val = << >>
    /\ de.log = <<"visit_i8", "visit_borrowed_bytes">>
    /\ de.slices = << <<"Borrowed", 3, 2>> >>
    /\ de.pos = 5

\* the payload of a stream is visit_bytes
C16_Copied_Reached ==
    /\ op = "next_element_seed"
    /\ de.rd.kind = "stream"
    /\ de.acc.state = "ReadBinary"
    /\ pre.acc.state = "ReadTag"
    /\ de.err = << >>
    /\ de.val = << <<"bytes", <<1>>>> >>
    /\ de.log = <<"visit_i8", "visit_bytes">>

\* a tag the visitor rejects: the state has moved on all the same
C16_TagRejected_Reached ==
    /\ op = "next_element_seed"
    /\ pre.acc.state = "New"
    /\ de.acc.state = "ReadTag"
    /\ de.err = custom("invalid type")

\* a payload that is not all there: the state stays ReadTag
C16_ShortPayload_Reached ==
    /\ op = "next_element_seed"
    /\ pre.acc.state = "ReadTag"
    /\ de.acc.state = "ReadTag"
    /\ de.err # << >>
    /\ de.err[1] = "InvalidValueRead"

(***************************************************************************)
(* Unit structs.                                                           *)
(***************************************************************************)
\* from_slice or from_read has decoded the buffer as a unit struct
DecodesUnitStruct ==
    /\ op \in {"from_slice", "from_read"}
    /\ seed[1] = "unit_struct"

\* C17: deserialize_unit_struct calls visit_unit when the marker is Null
\* or the empty fixarray 0x90 (one byte read); for any other marker the
\* outcome is that of deserialize_any called in its place on the same
\* Deserializer: the same callbacks, the same bytes consumed, the same
\* value or error.
C17_UnitStruct ==
    DecodesUnitStruct =>
        IF wire # << >> /\ wire[1] \in {Marker.Null, Marker.FixArray}
        THEN /\ de.err = << >>
             /\ de.log = <<"visit_unit">>
             /\ de.val = Answer(UnitStructVisitor(seed), "visit_unit", << >>)[1]
             /\ de.pos = 1
             /\ de.marker = << >>
        ELSE de = deserialize_any(pre, UnitStructVisitor(seed))

\* 01 decoded as a unit struct that reads anything: visit_u8(1)
C17_UnitStruct_Witness ==
    /\ DecodesUnitStruct
    /\ seed = <<"unit_struct", <<"any">>>>
    /\ wire = <<1, 2>>
    /\ de.err = << >>
    /\ de.val = <<"int", 1>>
    /\ de.log = <<"visit_u8">>
    /\ de.pos = 1

\* 90 is the unit struct, where deserialize_any would see a sequence
C17_EmptyArray_Reached ==
    /\ DecodesUnitStruct
    /\ wire = <<144>>
    /\ de.val = <<"unit_struct">>
    /\ ~IsErr(deserialize_any(pre, <<"any">>))
    /\ deserialize_any(pre, <<"any">>).val[1] = "seq"

\* c0 is the unit struct as well
C17_Null_Reached ==
    /\ DecodesUnitStruct
    /\ wire = <<192>>
    /\ de.val = <<"unit_struct">>

\* a map decoded as a unit struct that reads anything
C17_Map_Reached ==
    /\ DecodesUnitStruct
    /\ wire = <<129, 1, 2>>
    /\ de.err = << >>
    /\ de.val[1] = "map"
    /\ de.pos = 3

(***************************************************************************)
(* Strings and the bytes fallback.                                         *)
(***************************************************************************)
\* the types whose Deserialize goes straight to deserialize_any
Plain ==
    { T \in Seeds : T[1] \in {"any", "unit", "int", "str", "bytes", "raw", "rawref",
                              "seq", "map", "take", "tuple", "struct"} }

\* from_slice or from_read has decoded, as one of these, a buffer that
\* starts with a whole string value
DecodesStr ==
    /\ op \in {"from_slice", "from_read"}
    /\ seed \in Plain
    /\ wire # << >>
    /\ IsStrMarker(wire[1])
    /\ ValueLen(wire) > 0

\* C18: for a fixstr, str8, str16 or str32 value the decoder reads the
\* declared length and that many bytes; valid UTF-8 goes to visit_str
\* (visit_borrowed_str from a slice); anything else goes to visit_bytes
\* (visit_borrowed_bytes) with the raw bytes, and the visitor's value is
\* returned if it accepts them; only if it rejects them does the decode
\* fail, with Utf8Error of the validation error.
C18_StrFallback ==
    DecodesStr =>
        LET ref == de.rd.kind = "ref"
            str == IF ref THEN "visit_borrowed_str" ELSE "visit_str"
            bin == IF ref THEN "visit_borrowed_bytes" ELSE "visit_bytes"
            cb == IF Utf8Valid(Payload) THEN str ELSE bin
            answer == Answer(seed, cb, Payload)
        IN
        /\ de.pos = HeaderLen(wire) + Declared(wire)
        /\ de.slices = << <<IF ref THEN "Borrowed" ELSE "Copied", HeaderLen(wire),
                            Declared(wire)>> >>
        /\ de.log = <<cb>>
        /\ answer # << >> => de.err = << >> /\ de.val = answer[1]
        /\ (answer = << >> /\ Utf8Valid(Payload)) => de.err = custom("invalid type")
        /\ (answer = << >> /\ ~Utf8Valid(Payload)) =>
                de.err = <<"Utf8Error", valid_up_to(Payload)>>

\* a2 42 ff from a slice, decoded as a string: the bytes are offered,
\* rejected, and the error is Utf8Error with valid_up_to 1
C18_StrFallback_Witness ==
    /\ DecodesStr
    /\ wire = <<162, 66, 255>>
    /\ seed = <<"str">>
    /\ de.rd.kind = "ref"
    /\ de.log = <<"visit_borrowed_bytes">>
    /\ de.err = <<"Utf8Error", 1>>

\* the same bytes decoded as a byte buffer: the fallback's value
C18_Accepted_Reached ==
    /\ DecodesStr
    /\ wire = <<162, 66, 255>>
    /\ seed = <<"bytes">>
    /\ de.rd.kind = "stream"
    /\ de.log = <<"visit_bytes">>
    /\ de.err = << >>
    /\ de.val = <<"bytes", <<66, 255>>>>

\* a str32 of valid UTF-8
C18_Str32_Reached ==
    /\ DecodesStr
    /\ wire[1] = Marker.Str32
    /\ seed = <<"str">>
    /\ de.err = << >>
    /\ de.val = <<"str", <<66>>>>
    /\ de.pos = 6

\* valid UTF-8 offered to a visitor that takes no string
C18_StrRejected_Reached ==
    /\ DecodesStr
    /\ seed = <<"int">>
    /\ Utf8Valid(Payload)
    /\ de.log = <<"visit_str">>
    /\ de.err = custom("invalid type")

(***************************************************************************)
(* The cursor of the slice reader.                                         *)
(***************************************************************************)
\* what one read of N bytes does
ReaderRead ==
    LET N == seed'[2]
        remaining == Len(de.rd.buf)
        returned == Len(value[2])
    IN
    IF remaining < N
    THEN /\ de'.err = <<"InsufficientBytes", N, remaining, 0>>
         /\ de'.rd = de.rd
         /\ de'.pos = de.pos
         /\ de'.slices = de.slices
         /\ value' = value
    ELSE /\ de'.err = << >>
         /\ de'.val = SubSeq(wire, returned + 1, returned + N)
         /\ Len(de'.rd.buf) = remaining - N
         /\ de'.pos = de.pos + N
         /\ value'[2] = value[2] \o de'.val
         /\ op' = "read_slice" =>
                de'.slices = Append(de.slices, <<"Borrowed", returned, N>>)

\* C19: on a ReadRefReader a read of N bytes (read_slice or
\* read_exact_buf) with fewer than N left fails with InsufficientBytes
\* {expected: N, actual: what is left} and leaves the cursor where it was;
\* a read that succeeds returns the next N bytes and moves the cursor by N;
\* so the slices returned are consecutive and do not overlap, and the bytes
\* returned so far followed by the bytes left are the input.
C19_SliceCursor ==
    /\ [][ReaderRead]_vars
    /\ [](value[2] \o de.rd.buf = wire /\ de.pos = Len(value[2]))

\* test_as_ref_reader: read_slice of 1, of 6, of 5 (an error) and of 4
C19_SliceCursor_Witness ==
    /\ op = "read_slice"
    /\ wire = <<0, 1, 2, 3, 4, 5, 6, 7, 8, 9, 10>>
    /\ calls = 4
    /\ seed = <<"len", 4>>
    /\ pre.err = <<"InsufficientBytes", 5, 4, 0>>
    /\ de.err = << >>
    /\ de.val = <<7, 8, 9, 10>>
    /\ de.slices = << <<"Borrowed", 0, 1>>, <<"Borrowed", 1, 6>>, <<"Borrowed", 7, 4>> >>
    /\ de.rd.buf = << >>

\* read_exact_buf of more than is left, then of all that is left
C19_ExactBuf_Reached ==
    /\ op = "read_exact_buf"
    /\ wire = <<1, 2, 3>>
    /\ pre.err = <<"InsufficientBytes", 4, 2, 0>>
    /\ de.err = << >>
    /\ de.val = <<2, 3>>
    /\ value = <<"bytes", <<1, 2, 3>>>>

(***************************************************************************)
(* Error propagation.                                                      *)
(***************************************************************************)
\* from_slice or from_read has returned
Returns ==
    /\ op \in {"from_slice", "from_read"}
    /\ ~Panicked(de)

\* the errors raised, had the one returned been the only one
Propagated == IF de.err = << >> THEN << >> ELSE <<de.err>>

\* the i-th error raised is the one the call returns
IsReturned(i) == i = Len(de.raised) /\ de.err = de.raised[i]

\* the i-th error raised is the visitor's refusal of the bytes of a string
\* that is not UTF-8, which read_str_data replaces by Utf8Error
IsFallbackRefusal(i) ==
    /\ i + 1 = Len(de.raised)
    /\ de.raised[i] = custom("invalid type")
    /\ de.raised[i + 1][1] = "Utf8Error"
    /\ de.err = de.raised[i + 1]

\* the i-th error raised is the Err(_) of marker_to_len that
\* deserialize_enum takes for a unit variant
IsEnumProbe(i) ==
    /\ seed[1] = "enum"
    /\ i = 1
    /\ \/ de.raised[1] = <<"TypeMismatch", wire[1]>>
       \/ /\ wire[1] \in {Marker.Map16, Marker.Map32}
          /\ de.raised[1][1] = "InvalidValueRead"
          /\ de.raised[1][2] = "InvalidDataRead"

\* C20: every error raised during a decode call, by the reader, by a read
\* helper or by a visitor, is the error the call returns (converted into
\* the decoder's kinds at most); none is swallowed, replaced by another, or
\* followed by more decoding or a retry.
C20_ErrorsPropagate == Returns => de.raised = Propagated

\* C20, what the decoder does: the error returned is the last one raised,
\* and an earlier one is either the visitor's refusal of the bytes
\* fallback, replaced by Utf8Error, or the error of marker_to_len in
\* deserialize_enum, a failed read of the length included, after which the
\* value is decoded as a unit variant.
C20_ErrorsPropagateBut ==
    Returns =>
        /\ de.err # << >> => de.raised # << >> /\ IsReturned(Len(de.raised))
        /\ \A i \in 1..Len(de.raised) :
                IsReturned(i) \/ IsFallbackRefusal(i) \/ IsEnumProbe(i)
        /\ (seed \in Plain /\ Len(de.raised) > 1) => IsFallbackRefusal(1)

\* de 00 from a stream, decoded as an enum: the read of the map16 length
\* fails, visit_enum is called all the same, and the length is read again
C20_ErrorsPropagateBut_Witness ==
    /\ Returns
    /\ seed[1] = "enum"
    /\ wire = <<222, 0>>
    /\ de.rd.kind = "stream"
    /\ de.log = <<"visit_enum(UnitVariantAccess)">>
    /\ de.raised = << InvalidDataRead(<<"UnexpectedEof">>), InvalidDataRead(<<"UnexpectedEof">>) >>
    /\ de.err = InvalidDataRead(<<"UnexpectedEof">>)

\* a1 01 decoded as an enum: the TypeMismatch of marker_to_len is dropped
\* and the unit variant returned
C20_UnitVariant_Reached ==
    /\ Returns
    /\ seed[1] = "enum"
    /\ wire = <<161, 1>>
    /\ de.raised = << <<"TypeMismatch", 161>> >>
    /\ de.err = << >>

\* a1 ff decoded as a number: the visitor's error becomes Utf8Error
C20_Replaced_Reached ==
    /\ Returns
    /\ seed = <<"int">>
    /\ wire = <<161, 255>>
    /\ de.raised = << custom("invalid type"), <<"Utf8Error", 0>> >>
    /\ de.err = <<"Utf8Error", 0>>

\* an error of the reader that is returned as it was raised
C20_ReaderError_Reached ==
    /\ Returns
    /\ seed = <<"bytes">>
    /\ wire = <<196>>
    /\ de.rd.kind = "ref"
    /\ de.raised = << InvalidDataRead(InsufficientBytes(1, 0)) >>
    /\ de.err = InvalidDataRead(InsufficientBytes(1, 0))

(***************************************************************************)
(* Depth counter restoration.                                              *)
(***************************************************************************)
\* C21: every descent into an array, map or ext decrements the remaining
\* depth by one, and when a decode call returns, with a value or with an
\* error, the remaining depth is what it was before the call.
C21_DepthRestored ==
    (op = "deserialize" /\ ~Panicked(de)) => de.depth = pre.depth

\* C21, what depth_count! does: the depth is what it was when the call
\* returns a value, and a walk of a value nested n deep has brought it down
\* by n on the way.  An error that leaves visit_seq or visit_map by `?`,
\* and the DepthLimitExceeded of the macro's own return, skip the
\* increment.
C21_DepthRestoredOnOk ==
    (op = "deserialize" /\ de.err = << >>) =>
        /\ de.depth = pre.depth
        /\ (WalksFirstValue /\ pre.depth >= 1) => de.low = pre.depth - Nesting(wire)

\* [[nil]] walked with the maximum depth 3: the depth has been down to 1
\* and is 3 again
C21_DepthRestoredOnOk_Witness ==
    /\ WalksFirstValue
    /\ wire = <<145, 145, 192>>
    /\ pre.depth = 3
    /\ de.err = << >>
    /\ de.low = 1
    /\ de.depth = 3

\* [[nil]] with the maximum depth 2: DepthLimitExceeded, and the depth
\* stays 0
C21_LimitNotRestored_Reached ==
    /\ WalksFirstValue
    /\ wire = <<145, 145, 192>>
    /\ pre.depth = 2
    /\ de.err = <<"DepthLimitExceeded">>
    /\ de.depth = 0

\* [nil] decoded as a number with the maximum depth 3: the visitor's error
\* leaves the array arm by `?`, and the depth stays 2
C21_ErrorNotRestored_Reached ==
    /\ op = "deserialize"
    /\ seed = <<"int">>
    /\ wire = <<145, 192>>
    /\ pre.depth = 3
    /\ de.err = custom("invalid type")
    /\ de.depth = 2

\* [1, 2] of which the visitor takes nothing: the LengthMismatch is the
\* value of the macro's block, and the depth is restored
C21_MismatchRestored_Reached ==
    /\ op = "deserialize"
    /\ seed = <<"take", 0, <<"any">>>>
    /\ wire = <<146, 1, 2>>
    /\ pre.depth = 3
    /\ de.err = <<"LengthMismatch", 0>>
    /\ de.depth = 3

\* an ext refused by the visitor: visit_newtype_struct's error is the
\* value of the macro's expression, and the depth is restored
C21_ExtRestored_Reached ==
    /\ op = "deserialize"
    /\ seed = <<"int">>
    /\ wire = <<212, 1, 7>>
    /\ pre.depth = 3
    /\ de.err # << >>
    /\ de.depth = 3

(***************************************************************************)
(* The marker cache.                                                       *)
(***************************************************************************)
\* the Deserializer d, its cached marker put back in front of the input
Unread(d) ==
    [d EXCEPT !.marker = << >>, !.rd.buf = <<d.marker[1]>> \o @, !.pos = @ - 1]

\* what a take_or_read_marker has to do from pre
TakeStep ==
    IF pre.marker # << >>
    THEN /\ de.err = << >>
         /\ de.val = pre.marker[1]
         /\ de.marker = << >>
         /\ de.rd = pre.rd
         /\ de.pos = pre.pos
    ELSE /\ de.marker = << >>
         /\ IF pre.rd.buf # << >>
            THEN /\ de.err = << >>
                 /\ de.val = pre.rd.buf[1]
                 /\ de.rd.buf = Tail(pre.rd.buf)
                 /\ de.pos = pre.pos + 1
            ELSE /\ de.err # << >>
                 /\ de.err[1] = "InvalidValueRead"
                 /\ de.err[2] = "InvalidMarkerRead"
                 /\ de.pos = pre.pos

\* what a peek_or_read_marker has to do from pre
PeekStep ==
    IF pre.marker # << >>
    THEN /\ de.err = << >>
         /\ de.val = pre.marker[1]
         /\ de.marker = pre.marker
         /\ de.rd = pre.rd
         /\ de.pos = pre.pos
    ELSE IF pre.rd.buf # << >>
         THEN /\ de.err = << >>
              /\ de.val = pre.rd.buf[1]
              /\ de.marker = <<de.val>>
              /\ de.rd.buf = Tail(pre.rd.buf)
              /\ de.pos = pre.pos + 1
         ELSE /\ de.err # << >>
              /\ de.err[1] = "InvalidValueRead"
              /\ de.err[2] = "InvalidMarkerRead"
              /\ de.marker = << >>
              /\ de.pos = pre.pos

\* a decode call entered with a cached marker runs as the same call on the
\* input with that marker still ahead, but for the one marker read it saves
CachedStep ==
    pre.marker # << >> =>
        de = [Call(Unread(pre), seed) EXCEPT !.mreads = @ - 1]

\* the last step of the marker cache, from pre to de
MarkerStep ==
    /\ op = "take_or_read_marker" => TakeStep
    /\ op = "peek_or_read_marker" => PeekStep
    /\ op = "deserialize" => CachedStep

\* C22: the decoder holds at most one cached marker; take_or_read_marker
\* returns the cached marker and empties the cache, reading one byte only
\* when the cache was empty; peek_or_read_marker returns the cached marker
\* or reads one byte, and leaves the cache holding what it returned; a
\* decode call entered with a marker in the cache dispatches on that marker
\* and then on the bytes after it, none dropped and none read again.
C22_MarkerCache ==
    /\ MarkerStep
    /\ Len(de.marker) <= 1
    /\ de.pos + Len(de.rd.buf) = Len(wire)

\* a peek, a second peek, and a take: c3 is read once, returned three
\* times, and the cache is empty
C22_MarkerCache_Witness ==
    /\ wire = <<195>>
    /\ calls = 3
    /\ op = "take_or_read_marker"
    /\ pre.marker = <<195>>
    /\ pre.pos = 1
    /\ de.val = 195
    /\ de.marker = << >>
    /\ de.pos = 1

\* 91 91 c0: a peek, then a decode of any value entered with 91 cached
\* walks the whole of [[nil]]
C22_CachedDecode_Reached ==
    /\ wire = <<145, 145, 192>>
    /\ op = "deserialize"
    /\ seed = <<"any">>
    /\ pre.marker = <<145>>
    /\ pre.pos = 1
    /\ de.err = << >>
    /\ de.val = <<"seq", <<"any">>, << <<"seq", <<"any">>, << <<"unit">> >> >> >> >>
    /\ de.pos = 3
    /\ de.mreads = 2

\* a decode as an enum entered with a cached fixstr: the identifier is
\* decoded from the cached marker
C22_CachedEnum_Reached ==
    /\ wire = <<161, 1>>
    /\ op = "deserialize"
    /\ seed = <<"enum", Small>>
    /\ pre.marker = <<161>>
    /\ de.err = << >>
    /\ de.mreads = 0
    /\ de.marker = << >>

\* a peek at the end of the input: an error, and nothing cached
C22_PeekAtEnd_Reached ==
    /\ op = "peek_or_read_marker"
    /\ pre.marker = << >>
    /\ pre.rd.buf = << >>
    /\ de.err # << >>
    /\ de.marker = << >>

\* 82 .. decoded as an enum: LengthMismatch(2), returned with the peeked
\* marker still in the cache for a later call
C22_KeptOnMismatch_Reached ==
    /\ wire = <<130, 1, 1, 2, 1>>
    /\ op = "deserialize"
    /\ seed = <<"enum", Small>>
    /\ pre.marker = << >>
    /\ de.err = <<"LengthMismatch", 2>>
    /\ de.marker = <<130>>

(***************************************************************************)
(* The payload of a variant.                                               *)
(***************************************************************************)
\* the requests for payload data
PayloadRequests == {"newtype_variant", "tuple_variant", "struct_variant"}

\* the last step has read nothing: the reader, the cache and the counts
\* of bytes and markers are as they were
NothingRead ==
    /\ de.rd = pre.rd
    /\ de.marker = pre.marker
    /\ de.pos = pre.pos
    /\ de.mreads = pre.mreads
    /\ de.log = pre.log

\* what Error::custom makes of invalid_type(Unexpected::UnitVariant, &exp)
UnitVariantRefused(exp) ==
    <<"Syntax", "invalid type: unit variant, expected " \o exp>>

\* C23: on the access of an enum decoded from a bare identifier,
\* unit_variant succeeds and each of newtype_variant, tuple_variant and
\* struct_variant fails with invalid_type(UnitVariant, ..), and none of
\* them reads any input.
C23_UnitVariantAccess ==
    (value = <<"UnitVariantAccess">> /\ op # "variant_seed") =>
        /\ NothingRead
        /\ op = "unit_variant" => de.err = << >>
        /\ op = "newtype_variant" => de.err = UnitVariantRefused("newtype variant")
        /\ op = "tuple_variant" => de.err = UnitVariantRefused("tuple variant")
        /\ op = "struct_variant" => de.err = UnitVariantRefused("struct variant")

\* "A" and then [1, 2]: the tuple asked of the bare identifier is refused,
\* and the array is still ahead
C23_UnitVariantAccess_Witness ==
    /\ value = <<"UnitVariantAccess">>
    /\ wire = <<161, 65, 146, 1, 2>>
    /\ op = "tuple_variant"
    /\ de.err = UnitVariantRefused("tuple variant")
    /\ de.rd.buf = <<146, 1, 2>>
    /\ de.pos = 2

\* the identifier 1 and no more input: unit_variant succeeds
C23_UnitOk_Reached ==
    /\ value = <<"UnitVariantAccess">>
    /\ wire = <<1>>
    /\ op = "unit_variant"
    /\ de.err = << >>
    /\ de.rd.buf = << >>

\* "A" nil, a newtype asked for: refused, nil not read
C23_NewtypeRefused_Reached ==
    /\ value = <<"UnitVariantAccess">>
    /\ wire = <<161, 65, 192>>
    /\ op = "newtype_variant"
    /\ seed = <<"any">>
    /\ de.err = UnitVariantRefused("newtype variant")
    /\ de.rd.buf = <<192>>

\* a struct asked of the bare identifier 1, a map ahead: refused
C23_StructRefused_Reached ==
    /\ value = <<"UnitVariantAccess">>
    /\ wire = <<1, 130, 161, 97, 1, 161, 98, 2>>
    /\ op = "struct_variant"
    /\ de.err = UnitVariantRefused("struct variant")
    /\ de.pos = 1

\* the payload ahead of the access, and the Deserializer the request is
\* made on
PayloadAhead == pre.rd.buf
Asked == [pre EXCEPT !.raised = << >>]

\* the callback the request has offered the payload to first
FirstOffered == IF Len(de.log) > Len(pre.log) THEN de.log[Len(pre.log) + 1] ELSE ""

\* unit_variant takes one marker, and it has to be nil
NilTaken ==
    IF PayloadAhead = << >>
    THEN /\ de.err # << >>
         /\ de.pos = pre.pos
    ELSE /\ de.pos = pre.pos + 1
         /\ de.rd.buf = Tail(PayloadAhead)
         /\ de.mreads = pre.mreads + 1
         /\ de.err = IF PayloadAhead[1] = Marker.Null THEN << >>
                     ELSE <<"InvalidValueRead", "TypeMismatch", PayloadAhead[1]>>

\* the payload is decoded by its own marker, as deserialize_any does it for
\* the visitor: an array is offered as a sequence and a map as a map, and
\* a value comes back only if the whole container was taken
ByOwnMarker ==
    /\ de = deserialize_any(Asked, seed)
    /\ (PayloadAhead # << >> /\ HeaderLen(PayloadAhead) > 0) =>
            /\ IsArrayMarker(PayloadAhead[1]) => FirstOffered = "visit_seq"
            /\ IsMapMarker(PayloadAhead[1]) => FirstOffered = "visit_map"
    /\ de.err = << >> => de.pos = pre.pos + ValueLen(PayloadAhead)

\* C24: on the access of an enum decoded from a one-entry container, once
\* the identifier is decoded, unit_variant consumes exactly one nil marker
\* and fails on any other; newtype_variant decodes exactly one value;
\* tuple_variant and struct_variant both go through deserialize_tuple, so
\* the payload is decoded by its own marker, an array and a map are both
\* offered to the visitor, and each is checked for its length.
C24_VariantPayload ==
    (value = <<"VariantAccess">> /\ op # "variant_seed") =>
        /\ pre.marker = << >>
        /\ op = "unit_variant" => NilTaken
        /\ op = "newtype_variant" =>
                /\ de = Deserialize(Asked, seed)
                /\ (seed = <<"any">> /\ ValueLen(PayloadAhead) > 0) =>
                        /\ de.err = << >>
                        /\ de.pos = pre.pos + ValueLen(PayloadAhead)
        /\ op \in {"tuple_variant", "struct_variant"} => ByOwnMarker

\* {"A": [1, 2]} asked as a struct variant { a, b }: the array is taken as
\* the fields in order
C24_VariantPayload_Witness ==
    /\ value = <<"VariantAccess">>
    /\ wire = <<129, 161, 65, 146, 1, 2>>
    /\ op = "struct_variant"
    /\ de.err = << >>
    /\ de.val = <<"struct", << <<97>>, <<98>> >>, << <<"int", 1>>, <<"int", 2>> >> >>
    /\ de.rd.buf = << >>

\* {"A": {"a": 1, "b": 2}} asked as a struct variant: the map is taken
C24_StructFromMap_Reached ==
    /\ value = <<"VariantAccess">>
    /\ wire = <<129, 161, 65, 130, 161, 97, 1, 161, 98, 2>>
    /\ op = "struct_variant"
    /\ FirstOffered = "visit_map"
    /\ de.err = << >>
    /\ de.val = <<"struct", << <<97>>, <<98>> >>, << <<"int", 1>>, <<"int", 2>> >> >>

\* a map payload asked as a tuple variant: the map is offered to the
\* visitor, which has no visit_map
C24_TupleFromMap_Reached ==
    /\ value = <<"VariantAccess">>
    /\ wire = <<129, 1, 130, 1, 1, 2, 2>>
    /\ op = "tuple_variant"
    /\ FirstOffered = "visit_map"
    /\ de.err = custom("invalid type")

\* [1, 2, 3] asked as a tuple variant of two: LengthMismatch
C24_TupleMismatch_Reached ==
    /\ value = <<"VariantAccess">>
    /\ wire = <<129, 1, 147, 1, 2, 3>>
    /\ op = "tuple_variant"
    /\ de.err = <<"LengthMismatch", 2>>

\* {1: nil} asked as a unit variant: the nil is consumed
C24_NilConsumed_Reached ==
    /\ value = <<"VariantAccess">>
    /\ wire = <<129, 1, 192>>
    /\ op = "unit_variant"
    /\ de.err = << >>
    /\ de.rd.buf = << >>

\* {1: 5} asked as a unit variant: TypeMismatch
C24_NotNil_Reached ==
    /\ value = <<"VariantAccess">>
    /\ wire = <<129, 1, 5>>
    /\ op = "unit_variant"
    /\ de.err = <<"InvalidValueRead", "TypeMismatch", 5>>

\* {1: [1, 2]} asked as a newtype variant of Vec<u8>: one value decoded
C24_Newtype_Reached ==
    /\ value = <<"VariantAccess">>
    /\ wire = <<129, 1, 146, 1, 2>>
    /\ op = "newtype_variant"
    /\ seed = <<"seq", <<"int">>>>
    /\ de.err = << >>
    /\ de.val = <<"seq", <<"int">>, << <<"int", 1>>, <<"int", 2>> >> >>

(***************************************************************************)
(* The remaining counter of SeqAccess and MapAccess.                       *)
(***************************************************************************)
\* the last request was for an element or for a key
CountedRequest == op \in {"next_element_seed", "next_key_seed"}

\* C25: the remaining counter of a SeqAccess or MapAccess starts at the
\* declared length, goes down by exactly one with each element (each key)
\* asked for while it is positive, and never below zero; at zero every
\* next_element and next_key returns None and reads nothing; so the
\* visitor is given at most the declared number of elements.
C25_RemainingGuard ==
    /\ op = "new" => de.acc.left = Declared(wire)
    /\ de.acc.left >= 0
    /\ value[2] + de.acc.left <= Declared(wire)
    /\ (CountedRequest /\ pre.acc.left > 0) => de.acc.left = pre.acc.left - 1
    /\ (CountedRequest /\ pre.acc.left = 0) =>
            /\ de.err = << >>
            /\ de.val = << >>
            /\ de.acc.left = 0
            /\ NothingRead
    /\ op = "next_value_seed" => de.acc.left = pre.acc.left

\* [1] 2: the element is given, and the next two requests return None and
\* leave the 2 unread
C25_RemainingGuard_Witness ==
    /\ wire = <<145, 1, 2>>
    /\ op = "next_element_seed"
    /\ calls = 3
    /\ value = <<"given", 1>>
    /\ pre.acc.left = 0
    /\ de.val = << >>
    /\ de.rd.buf = <<2>>

\* {1: 2} 1 2: after the entry, next_key returns None
C25_MapNone_Reached ==
    /\ wire = <<129, 1, 2, 1, 2>>
    /\ op = "next_key_seed"
    /\ calls = 3
    /\ value = <<"given", 1>>
    /\ pre.acc.left = 0
    /\ de.val = << >>
    /\ de.rd.buf = <<1, 2>>

\* an element that fails to decode has been counted all the same
C25_ErrorCounted_Reached ==
    /\ wire = <<146, 1>>
    /\ op = "next_element_seed"
    /\ calls = 2
    /\ de.err # << >>
    /\ value = <<"given", 1>>
    /\ de.acc.left = 0

\* an array16 of two, both given
C25_AllGiven_Reached ==
    /\ wire = <<220, 0, 2, 1, 2>>
    /\ value = <<"given", 2>>
    /\ de.acc.left = 0
    /\ de.rd.buf = << >>

(***************************************************************************)
(* No underflow of the depth counter.                                      *)
(***************************************************************************)
\* C26: whatever set_max_depth was given and whatever calls came before,
\* the remaining depth is never decremented while it is 0.
C26_NoDepthUnderflow == de.under = 0

\* C26, what depth_count! ensures: a call entered with a remaining depth
\* of 1 or more does not decrement it from 0, for the decrement that
\* reaches 0 returns DepthLimitExceeded.  A call entered with 0, which
\* set_max_depth(0) and an earlier DepthLimitExceeded both leave, does so
\* at its first array, map or ext.
C26_NoDepthUnderflowFrom1 ==
    /\ (op = "deserialize" /\ pre.depth >= 1) => de.under = 0
    /\ de.under <= 1

\* [[nil]] with the maximum depth 2: the counter comes to 0 by the
\* decrement from 1, and the call returns there
C26_NoDepthUnderflowFrom1_Witness ==
    /\ op = "deserialize"
    /\ wire = <<145, 145, 192>>
    /\ pre.depth = 2
    /\ de.err = <<"DepthLimitExceeded">>
    /\ de.depth = 0
    /\ de.low = 0
    /\ de.under = 0

\* set_max_depth(0) and [nil], overflow checks on: the decrement panics
C26_ZeroPanics_Reached ==
    /\ op = "deserialize"
    /\ calls = 1
    /\ wire = <<145, 192>>
    /\ pre.depth = 0
    /\ env.checks
    /\ de.err = <<"panic", "attempt to subtract with overflow">>
    /\ de.under = 1

\* set_max_depth(0) and [nil], overflow checks off: the counter wraps and
\* the array is decoded
C26_ZeroWraps_Reached ==
    /\ op = "deserialize"
    /\ calls = 1
    /\ wire = <<145, 192>>
    /\ pre.depth = 0
    /\ ~env.checks
    /\ de.err = << >>
    /\ de.under = 1

\* [[[nil]]] with the maximum depth 2: the first call returns
\* DepthLimitExceeded at the second array and leaves the counter at 0; the
\* second call, on the third array, decrements it from 0
C26_AfterLimit_Reached ==
    /\ op = "deserialize"
    /\ calls = 2
    /\ seed = <<"any">>
    /\ wire = <<145, 145, 145, 192>>
    /\ pre.err = <<"DepthLimitExceeded">>
    /\ pre.depth = 0
    /\ pre.pos = 2
    /\ de.under = 1

(***************************************************************************)
(* The depth limit.                                                        *)
(***************************************************************************)
\* C27: with a maximum depth D of 1 or more, a value whose arrays, maps
\* and ext values nest at most D deep is not rejected with
\* DepthLimitExceeded.
C27_DepthLimitExact ==
    (WalksFirstValue /\ pre.depth >= 1 /\ Nesting(wire) <= pre.depth)
        => de.err # <<"DepthLimitExceeded">>

\* C27, what depth_count! does: it compares the counter with 0 after the
\* decrement, so the D-th level is the one rejected.  A value is decoded
\* when it nests less than D deep and rejected from D on.
C27_DepthLimitOneLess ==
    (WalksFirstValue /\ pre.depth >= 1)
        => /\ Nesting(wire) < pre.depth => de.err = << >>
           /\ Nesting(wire) >= pre.depth => de.err = <<"DepthLimitExceeded">>

\* [[nil]] is decoded with the maximum depth 3
C27_DepthLimitOneLess_Witness ==
    /\ WalksFirstValue
    /\ wire = <<145, 145, 192>>
    /\ Nesting(wire) = 2
    /\ pre.depth = 3
    /\ de.err = << >>
    /\ de.low = 1

\* [[nil]] is rejected with the maximum depth 2
C27_AtLimit_Reached ==
    /\ WalksFirstValue
    /\ wire = <<145, 145, 192>>
    /\ Nesting(wire) = 2
    /\ pre.depth = 2
    /\ de.err = <<"DepthLimitExceeded">>

\* [nil] is rejected with the maximum depth 1
C27_OneLevel_Reached ==
    /\ WalksFirstValue
    /\ wire = <<145, 192>>
    /\ pre.depth = 1
    /\ de.err = <<"DepthLimitExceeded">>

\* with the default, a map in an array in a map is decoded
C27_Default_Reached ==
    /\ WalksFirstValue
    /\ pre.depth = DefaultDepth
    /\ Nesting(wire) = 3
    /\ de.err = << >>
    /\ de.low = DefaultDepth - 3

(***************************************************************************)
(* The framing of structs.                                                 *)
(***************************************************************************)
\* whether the config c frames a struct of n fields as a map
MapHeaded(c, n) == write_struct_len(c, c, n) = WriteMapLen(n)

\* whether the config c frames a struct of n fields as an array
ArrayHeaded(c, n) == write_struct_len(c, c, n) = WriteArrayLen(n)

\* whether the config c writes the field key, v as the key and the value
Keyed(c, key, v) == write_struct_field(c, c, key, v) = WriteStr(key) \o Serialize(c, v)

\* whether the config c writes the field key, v as the value alone
Bare(c, key, v) == write_struct_field(c, c, key, v) = Serialize(c, v)

\* the structs in v, and the fields of its struct variants as structs
StructParts(v) ==
    { p \in Parts(v) : p[1] = "struct" }
        \cup { <<"struct", Names, p[4]>> :
                p \in { q \in Parts(v) : q[1] = "variant" /\ q[2][q[3]][2] = "struct" } }

\* C28: under every composition of wrappers, write_struct_len writes a map
\* length exactly when write_struct_field writes the key before the value,
\* and an array length exactly when it writes the value alone.  So every
\* struct of n fields that is serialized is the array length n and the n
\* values, or the map length n and n pairs of a key and a value.
C28_StructFraming ==
    op = "serialize" =>
        /\ \A p \in StructParts(value) :
            LET n == Len(p[3]) IN
            /\ MapHeaded(cfg, n) # ArrayHeaded(cfg, n)
            /\ \A i \in 1..n :
                /\ MapHeaded(cfg, n) <=> Keyed(cfg, p[2][i], p[3][i])
                /\ ArrayHeaded(cfg, n) <=> Bare(cfg, p[2][i], p[3][i])
            /\ Serialize(cfg, p) \in { ArrayFramed(cfg, p), MapFramed(cfg, p) }
        /\ value[1] = "struct" => wire \in { ArrayFramed(cfg, value), MapFramed(cfg, value) }
        /\ (value[1] = "variant" /\ value[2][value[3]][2] = "struct") =>
            LET fields == <<"struct", Names, value[4]>>
                ident == UpToIdent(value, WriteStr(value[2][value[3]][1]))
            IN  wire \in { ident \o ArrayFramed(cfg, fields), ident \o MapFramed(cfg, fields) }

\* HumanReadable(StructMap(Default)) has written a struct in a struct: both
\* are maps with their keys
C28_StructFraming_Witness ==
    /\ op = "serialize"
    /\ cfg = <<"HumanReadable", "StructMap">>
    /\ value = <<"struct", << <<97>> >>, << Dog >> >>
    /\ MapHeaded(cfg, 1)
    /\ Keyed(cfg, <<97>>, Dog)
    /\ wire = <<129, 161, 97, 130, 164, 110, 97, 109, 101, 165>> \o Bobby
                \o <<163, 97, 103, 101, 8>>

\* Binary(StructTuple(Default)) has written Dog as an array of bare values
C28_ArrayBare_Reached ==
    /\ op = "serialize"
    /\ cfg = <<"Binary", "StructTuple">>
    /\ value = Dog
    /\ ArrayHeaded(cfg, 2)
    /\ Bare(cfg, <<110, 97, 109, 101>>, <<"str", Bobby>>)
    /\ wire = <<146, 165>> \o Bobby \o <<8>>

\* StructTuple(StructMap(Default)): the outer wrapper decides both
C28_TupleOverMap_Reached ==
    /\ op = "serialize"
    /\ cfg = <<"StructTuple", "StructMap">>
    /\ value = <<"struct", << <<97>> >>, << Dog >> >>
    /\ wire = <<145, 146, 165>> \o Bobby \o <<8>>

\* the fields of a struct variant under Binary(StructMap(Default))
C28_StructVariant_Reached ==
    /\ op = "serialize"
    /\ cfg = <<"Binary", "StructMap">>
    /\ value = <<"variant", Enum, 4, << <<"int", 300>>, <<"bool", TRUE>> >>>>
    /\ wire = <<129, 161, 68, 130, 161, 97, 205, 1, 44, 161, 98, 195>>

(***************************************************************************)
(* No stale marker.                                                        *)
(***************************************************************************)
\* the Deserializer d, the next byte of its input taken into the cache
Cached(d) ==
    [d EXCEPT !.marker = <<d.rd.buf[1]>>, !.rd.buf = Tail(@), !.pos = @ + 1]

\* C29: a decode call that returns a value leaves the marker cache empty,
\* whether it was entered with a cached marker or not; and a decode call
\* entered with an empty cache dispatches on the next unread byte: it runs
\* as the same call does with that byte in the cache, one marker read
\* more.
C29_NoStaleMarker ==
    op = "deserialize" =>
        /\ de.err = << >> => de.marker = << >>
        /\ (pre.marker = << >> /\ pre.rd.buf # << >>) =>
                /\ de.mreads >= 1
                /\ de = [Call(Cached(pre), seed) EXCEPT !.mreads = @ + 1]

\* c0 c0 c0: an Option decoded as None from the first c0, and then a unit
\* struct from the second, not from the first
C29_NoStaleMarker_Witness ==
    /\ wire = <<192, 192, 192>>
    /\ calls = 2
    /\ op = "deserialize"
    /\ seed = <<"unit_struct", <<"any">>>>
    /\ pre.err = << >>
    /\ pre.log # << >>
    /\ pre.val = <<"none", <<"int">>>>
    /\ pre.marker = << >>
    /\ pre.pos = 1
    /\ de.err = << >>
    /\ de.marker = << >>
    /\ de.pos = 2
    /\ de.mreads = 1

\* a Some(1) decoded from a peeked marker: visit_some has used it
C29_SomeFromCache_Reached ==
    /\ wire = <<1, 2>>
    /\ op = "deserialize"
    /\ seed = <<"opt", <<"int">>>>
    /\ pre.marker = <<1>>
    /\ de.err = << >>
    /\ de.val = <<"some", <<"int", 1>>>>
    /\ de.marker = << >>
    /\ de.pos = 1

\* an enum decoded from a map of one entry: the peeked marker is dropped
C29_EnumFromMap_Reached ==
    /\ op = "deserialize"
    /\ seed = <<"enum", Small>>
    /\ wire # << >>
    /\ IsMapMarker(wire[1])
    /\ pre.marker = << >>
    /\ de.err = << >>
    /\ de.marker = << >>

\* an ext value and an i128 decoded
C29_Ext_Reached ==
    /\ op = "deserialize"
    /\ seed = <<"ext">>
    /\ wire = <<212, 1, 1, 1>>
    /\ de.err = << >>
    /\ de.marker = << >>
    /\ de.pos = 3

C29_I128_Reached ==
    /\ op = "deserialize"
    /\ seed = <<"i128">>
    /\ de.err = << >>
    /\ de.marker = << >>
    /\ de.pos = 18

\* 82 .. decoded as an enum: the call that leaves its marker behind returns
\* an error
C29_StaleOnError_Reached ==
    /\ op = "deserialize"
    /\ seed = <<"enum", Small>>
    /\ pre.marker = << >>
    /\ de.err = <<"LengthMismatch", 2>>
    /\ de.marker = <<wire[1]>>

=============================================================================
